---------------------------- MODULE Spec2Model ----------------------------
(***************************************************************************)
(* A model of py_documentor.py (PyDocumentor): the directive parsers, the  *)
(* collection of modules, classes and functions, the two formatters and    *)
(* PyDocumentor.export().                                                  *)
(*                                                                         *)
(* Representation.                                                         *)
(*  - A text (a Python str) is a sequence of lexemes.  A lexeme is one     *)
(*    punctuation or whitespace character (":", ",", ".", " ", "\t",       *)
(*    "\n") or a maximal run of word characters (what the regular          *)
(*    expressions call \w+), kept as one TLA+ string.  Two word lexemes    *)
(*    are never adjacent in a text.                                        *)
(*  - An Optional value (None or a value) is a sequence of length 0 or 1.  *)
(*  - A rendered fragment is a sequence of non-empty string pieces whose   *)
(*    concatenation is the Python string; the empty string is <<>>.  The   *)
(*    grave accent of the Markdown fragments (U+0060), which a TLA+ string *)
(*    cannot hold, is written {bq}.                                        *)
(*  - The regular expressions are matched lexeme by lexeme.  The literal   *)
(*    words of the patterns (exclude, exclude_children, exclude_methods,   *)
(*    include_methods, param, return) match a lexeme that is that word;    *)
(*    the texts of the model hold no longer word that merely begins with   *)
(*    or contains one of them, which the patterns of the code would match  *)
(*    in part.                                                             *)
(*  - The file style.css that HtmlFormatter.free_run reads beside the      *)
(*    script is taken to exist; its content is StyleSheet.                 *)
(***************************************************************************)
EXTENDS Naturals, Sequences, FiniteSets

VARIABLES
    pc,              \* position of the run: which step of __main__ is next
    options,         \* UserOptions
    file_paths,      \* self._file_paths with what importing each file yields
    modules,         \* the list built by _import_modules
    collected_data,  \* self._collected_data, in insertion order
    out,             \* export(): the list out of the module rendered last
    formatted_data,  \* export(): formatted_data, in insertion order
    files,           \* the output files written so far
    console,         \* what was printed
    idx,             \* the position of the loop that is running
    call,            \* a function on its own: its arguments
    ret              \* a function on its own: what it returned

vars == <<pc, options, file_paths, modules, collected_data, out,
          formatted_data, files, console, idx, call, ret>>

---------------------------------------------------------------------------
(* Bounds of the model *)

\* the longest text of the texts enumerated lexeme by lexeme
MaxDocLen == 4

\* the files of a batch besides the one drawn from the whole universe
MaxCompanions == 1

\* the longest parameter list
MaxParams == 4

\* the longest text, in lexemes, _check_exclusion is called on by itself
MaxExclusionLen == 5

\* the most names a directive of the parsers called by themselves lists
MaxNames == 2

\* the most calls of export() on one PyDocumentor
MaxExports == 2

\* the most :param and :return: entries of the docstrings put together
\* from entries
MaxEntries == 2

---------------------------------------------------------------------------
(* Text helpers: Python str and re primitives over lexeme sequences *)

\* [ \t] of the regular expressions
Blank == {" ", "\t"}

\* \s of the regular expressions, and what str.strip() removes
Space == {" ", "\t", "\n"}

\* the lexemes that are not a run of word characters
Punct == Space \cup {":", ",", "."}

IsWord(x) == x \notin Punct

None == <<>>

Some(x) == <<x>>

\* the first index j >= i of t with t[j] \notin S, or Len(t) + 1
RECURSIVE SkipWhile(_, _, _)
SkipWhile(t, i, S) ==
    IF i > Len(t) THEN Len(t) + 1
    ELSE IF t[i] \in S THEN SkipWhile(t, i + 1, S)
    ELSE i

\* t[i] = x, false past the end of t
At(t, i, x) == i >= 1 /\ i <= Len(t) /\ t[i] = x

RECURSIVE LStrip(_)
LStrip(t) ==
    IF t = <<>> THEN <<>>
    ELSE IF Head(t) \in Space THEN LStrip(Tail(t))
    ELSE t

RECURSIVE RStrip(_)
RStrip(t) ==
    IF t = <<>> THEN <<>>
    ELSE IF t[Len(t)] \in Space THEN RStrip(SubSeq(t, 1, Len(t) - 1))
    ELSE t

\* str.strip()
Strip(t) == RStrip(LStrip(t))

\* x in t, for a one-lexeme x
Contains(t, x) == \E i \in 1..Len(t) : t[i] = x

\* the index of the first x in t from i on, or 0
RECURSIVE IndexFrom(_, _, _)
IndexFrom(t, x, i) ==
    IF i > Len(t) THEN 0
    ELSE IF t[i] = x THEN i
    ELSE IndexFrom(t, x, i + 1)

\* d[k] = v, for a dict kept as a function from its keys
Put(d, k, v) == [x \in (DOMAIN d) \cup {k} |-> IF x = k THEN v ELSE d[x]]

---------------------------------------------------------------------------
(* PyDocumentor._analyze_function_docs *)

\* one attempt of the pattern "(:\s*param |:\s*return:)" at index i:
\* [ok, last (the index of the last lexeme matched)]
DelimAt(t, i) ==
    IF ~At(t, i, ":") THEN [ok |-> FALSE, last |-> 0]
    ELSE LET j == SkipWhile(t, i + 1, Space)
         IN  IF At(t, j, "param") /\ At(t, j + 1, " ")
                 THEN [ok |-> TRUE, last |-> j + 1]
             ELSE IF At(t, j, "return") /\ At(t, j + 1, ":")
                 THEN [ok |-> TRUE, last |-> j + 1]
             ELSE [ok |-> FALSE, last |-> 0]

\* re.split(pattern, doc) from position pos, the piece in progress starting
\* at start: the texts between the delimiters, alternating with the
\* delimiters themselves (the pattern is one capture group)
RECURSIVE SplitFrom(_, _, _)
SplitFrom(t, start, pos) ==
    IF pos > Len(t) THEN << SubSeq(t, start, Len(t)) >>
    ELSE IF DelimAt(t, pos).ok
        THEN LET last == DelimAt(t, pos).last
             IN  << SubSeq(t, start, pos - 1), SubSeq(t, pos, last) >>
                 \o SplitFrom(t, last + 1, last + 1)
    ELSE SplitFrom(t, start, pos + 1)

ReSplit(t) == SplitFrom(t, 1, 1)

\* the loop "for i in range(0, len(splt), 2)" from index i on
RECURSIVE AnalyzeLoop(_, _, _)
AnalyzeLoop(splt, i, data) ==
    IF i > Len(splt) THEN data
    ELSE LET text  == splt[i + 1]
             colon == IndexFrom(text, ":", 1)
             name  == IF colon > 0 THEN SubSeq(text, 1, colon - 1) ELSE <<>>
             info  == IF colon > 0 THEN SubSeq(text, colon + 1, Len(text))
                      ELSE text
             next  == IF Contains(splt[i], "param")
                         THEN Put(data, Strip(name), Strip(info))
                      ELSE IF Contains(splt[i], "return")
                         THEN Put(data, <<"RETURN">>, Strip(info))
                      ELSE data
         IN  AnalyzeLoop(splt, i + 2, next)

\* _analyze_function_docs keeping splt[0] as it is: the description would
\* then keep the white space around it
AnalyzeSplitUnstripped(splt) ==
    IF ~DelimAt(splt[1], 1).ok
        THEN AnalyzeLoop(Tail(splt), 1, Put(<<>>, <<"FUNCTION">>, splt[1]))
    ELSE AnalyzeLoop(splt, 1, <<>>)

\* _analyze_function_docs after the split: the "FUNCTION" entry, then the
\* loop
AnalyzeSplit(splt) ==
    IF ~DelimAt(splt[1], 1).ok
        THEN AnalyzeLoop(Tail(splt), 1,
                         Put(<<>>, <<"FUNCTION">>, Strip(splt[1])))
    ELSE AnalyzeLoop(splt, 1, <<>>)

\* PyDocumentor._analyze_function_docs: the dict data, its keys texts
AnalyzeFunctionDocs(doc) == AnalyzeSplit(ReSplit(doc))

---------------------------------------------------------------------------
(* The directive parsers *)

\* the pattern of _check_exclusion without its last "\n": the directive
\* would be found at the very end of a text as well
ExclusionAtWithoutBreak(t, i, exclusion) ==
    /\ At(t, i, ":")
    /\ LET j == SkipWhile(t, i + 1, Blank)
       IN  /\ At(t, j, exclusion)
           /\ At(t, SkipWhile(t, j + 1, Blank), ":")

\* one attempt of ":[ \t]*{exclusion}[ \t]*:[ \t]*\n" at index i
ExclusionAt(t, i, exclusion) ==
    /\ At(t, i, ":")
    /\ LET j == SkipWhile(t, i + 1, Blank)
       IN  /\ At(t, j, exclusion)
           /\ LET k == SkipWhile(t, j + 1, Blank)
              IN  /\ At(t, k, ":")
                  /\ At(t, SkipWhile(t, k + 1, Blank), "\n")

\* _check_exclusion with True for a doc that is None or "": what has no
\* docstring would be excluded
CheckExclusionOfMissing(doc, exclusion) ==
    IF doc # None /\ doc[1] # <<>>
        THEN \E i \in 1..Len(doc[1]) : ExclusionAt(doc[1], i, exclusion)
    ELSE TRUE

\* PyDocumentor._check_exclusion: re.search in a doc that is neither None
\* nor ""
CheckExclusion(doc, exclusion) ==
    IF doc # None /\ doc[1] # <<>>
        THEN \E i \in 1..Len(doc[1]) : ExclusionAt(doc[1], i, exclusion)
    ELSE FALSE

\* the group with the comma optional, "((?:\s*\w+\s*)(?:,?\s*\w+\s*)*)":
\* names that only white space separates would be a list
RECURSIVE NameListAtWithoutCommas(_, _, _)
NameListAtWithoutCommas(t, k, names) ==
    LET n == SkipWhile(t, k, Space)
    IN  IF n > Len(t) \/ ~IsWord(t[n]) THEN [ok |-> FALSE, names |-> {}]
        ELSE LET e == SkipWhile(t, n + 1, Space)
             IN  IF At(t, e, ":")
                     THEN [ok |-> TRUE, names |-> names \cup {t[n]}]
                 ELSE IF At(t, e, ",")
                     THEN NameListAtWithoutCommas(t, e + 1, names \cup {t[n]})
                 ELSE IF e <= Len(t) /\ IsWord(t[e])
                     THEN NameListAtWithoutCommas(t, e, names \cup {t[n]})
                 ELSE [ok |-> FALSE, names |-> {}]

\* the group "((?:\s*\w+\s*)(?:,\s*\w+\s*)*)" followed by ":" tried at index
\* k, a name expected next: [ok, names (the group split at "," and each
\* part stripped)]
RECURSIVE NameListAt(_, _, _)
NameListAt(t, k, names) ==
    LET n == SkipWhile(t, k, Space)
    IN  IF n > Len(t) \/ ~IsWord(t[n]) THEN [ok |-> FALSE, names |-> {}]
        ELSE LET e == SkipWhile(t, n + 1, Space)
             IN  IF At(t, e, ":")
                     THEN [ok |-> TRUE, names |-> names \cup {t[n]}]
                 ELSE IF At(t, e, ",")
                     THEN NameListAt(t, e + 1, names \cup {t[n]})
                 ELSE [ok |-> FALSE, names |-> {}]

\* one attempt of ":\s*{word}\s*(<name list>)?:" at index i:
\* [ok, listed (whether the group took part), names]
MethodsAt(t, i, word) ==
    IF ~At(t, i, ":") THEN [ok |-> FALSE, listed |-> FALSE, names |-> {}]
    ELSE LET j == SkipWhile(t, i + 1, Space)
         IN  IF ~At(t, j, word)
                 THEN [ok |-> FALSE, listed |-> FALSE, names |-> {}]
             ELSE LET k == SkipWhile(t, j + 1, Space)
                      l == NameListAt(t, k, {})
                  IN  IF l.ok
                          THEN [ok |-> TRUE, listed |-> TRUE, names |-> l.names]
                      ELSE IF At(t, k, ":")
                          THEN [ok |-> TRUE, listed |-> FALSE, names |-> {}]
                      ELSE [ok |-> FALSE, listed |-> FALSE, names |-> {}]

\* re.search: the leftmost match from index i on; with the group not
\* optional (needList) a match is one where the group took part
RECURSIVE MethodsSearch(_, _, _, _)
MethodsSearch(t, i, word, needList) ==
    IF i > Len(t) THEN [ok |-> FALSE, listed |-> FALSE, names |-> {}]
    ELSE LET m == MethodsAt(t, i, word)
         IN  IF m.ok /\ (m.listed \/ ~needList) THEN m
             ELSE MethodsSearch(t, i + 1, word, needList)

\* the three kinds of value _get_exclusion returns: False, True, a set
ExcludeNone == [all |-> FALSE, names |-> {}, isset |-> FALSE]

ExcludeAll == [all |-> TRUE, names |-> {}, isset |-> FALSE]

ExcludeSet(S) == [all |-> FALSE, names |-> S, isset |-> TRUE]

\* _get_exclusion with the group of its pattern not optional, as in
\* _get_inclusion: a directive without names would not be found
GetExclusionNeedingList(doc) ==
    IF doc # None /\ doc[1] # <<>>
        THEN LET match == MethodsSearch(doc[1], 1, "exclude_methods", TRUE)
             IN  IF match.ok THEN ExcludeSet(match.names) ELSE ExcludeNone
    ELSE ExcludeNone

\* PyDocumentor._get_exclusion
GetExclusion(doc) ==
    IF doc # None /\ doc[1] # <<>>
        THEN LET match == MethodsSearch(doc[1], 1, "exclude_methods", FALSE)
             IN  IF match.ok
                     THEN IF ~match.listed THEN ExcludeAll
                          ELSE ExcludeSet(match.names)
                 ELSE ExcludeNone
    ELSE ExcludeNone

\* _get_inclusion reading the names after the second colon, up to the end
\* of the line, instead of those before it
GetInclusionAfterColon(doc) ==
    IF doc # None /\ doc[1] # <<>>
        THEN LET match == MethodsSearch(doc[1], 1, "include_methods", FALSE)
             IN  IF match.ok /\ ~match.listed
                     THEN {doc[1][k] :
                              k \in {j \in 1..Len(doc[1]) : IsWord(doc[1][j])
                                         /\ doc[1][j] # "include_methods"}}
                 ELSE {}
    ELSE {}

\* PyDocumentor._get_inclusion
GetInclusion(doc) ==
    IF doc # None /\ doc[1] # <<>>
        THEN LET match == MethodsSearch(doc[1], 1, "include_methods", TRUE)
             IN  IF match.ok THEN match.names ELSE {}
    ELSE {}

\* _is_method_excluded without its branch "exclude_methods is True": an
\* exclude_methods directive with no names would then exclude nothing
IsMethodExcludedWithoutAll(name, included, exclude_children, exclude_methods) ==
    IF name \in included THEN FALSE
    ELSE IF exclude_children THEN TRUE
    ELSE IF exclude_methods.isset /\ name \in exclude_methods.names THEN TRUE
    ELSE FALSE

\* _is_method_excluded without its branch "name in exclude_methods": the
\* names an exclude_methods directive lists would then not be excluded
IsMethodExcludedWithoutNames(name, included, exclude_children, exclude_methods) ==
    IF name \in included THEN FALSE
    ELSE IF exclude_children THEN TRUE
    ELSE IF ~exclude_methods.isset /\ exclude_methods.all THEN TRUE
    ELSE FALSE

\* PyDocumentor._is_method_excluded
IsMethodExcluded(name, included, exclude_children, exclude_methods) ==
    IF name \in included THEN FALSE
    ELSE IF exclude_children THEN TRUE
    ELSE IF ~exclude_methods.isset /\ exclude_methods.all THEN TRUE
    ELSE IF exclude_methods.isset /\ name \in exclude_methods.names THEN TRUE
    ELSE FALSE

---------------------------------------------------------------------------
(* What inspect yields (the inputs of collection)                          *)
(*   function: [name, doc, params], params a sequence of                   *)
(*             [name, kind, default], default an Optional value            *)
(*   value:    [type, text], text being str(value)                         *)
(*   class:    [name, doc, members], members what getmembers(cls) yields   *)
(*             in its (sorted) order, each [name, is, inDict, static,      *)
(*             func, value]: is = "function" (isfunction), "method"        *)
(*             (ismethod), "data" (not callable) or "callable"; inDict     *)
(*             and static say whether cls.__dict__ holds the name and      *)
(*             holds it as a staticmethod                                  *)
(*   module:   [name, doc, members], members what getmembers(mod) yields,  *)
(*             each [name, is, module, cls, func]: is = "class",           *)
(*             "function" or "other"; module the member's __module__       *)

\* the names of the model that begin with "_"
UnderscoreNames == {"_g", "_h", "_secret", "_Hidden", "__init__"}

\* name[0] == "_"
StartsWithUnderscore(name) == name \in UnderscoreNames

\* _collect_function_info: the loop over sig.parameters
RECURSIVE CollectParameters(_, _, _)
CollectParameters(params, i, docs) ==
    IF i > Len(params) THEN <<>>
    ELSE << [name    |-> params[i].name,
             kind    |-> params[i].kind,
             default |-> params[i].default,
             doc     |-> IF <<params[i].name>> \in DOMAIN docs
                             THEN Some(docs[<<params[i].name>>])
                         ELSE None] >>
         \o CollectParameters(params, i + 1, docs)

\* _collect_function_info: the dict data, docs being what
\* _analyze_function_docs returned
FunctionData(func, docs) ==
    [name       |-> func.name,
     doc        |-> IF <<"FUNCTION">> \in DOMAIN docs
                        THEN docs[<<"FUNCTION">>]
                    ELSE <<>>,
     parameters |-> CollectParameters(func.params, 1, docs),
     return     |-> IF <<"RETURN">> \in DOMAIN docs
                        THEN Strip(docs[<<"RETURN">>])
                    ELSE <<>>]

\* PyDocumentor._collect_function_info: None, or Some of the dict of the
\* function
CollectFunctionInfo(func) ==
    IF ~CheckExclusion(func.doc, "exclude")
        THEN Some(FunctionData(func,
                      AnalyzeFunctionDocs(IF func.doc # None THEN func.doc[1]
                                          ELSE <<>>)))
    ELSE None

\* _collect_class_info, first loop: the members kept in methods_functions
RECURSIVE MethodsFunctions(_, _, _, _, _)
MethodsFunctions(inspected, i, include_methods, exclude_children, exclude_methods) ==
    IF i > Len(inspected) THEN <<>>
    ELSE (IF /\ inspected[i].is \in {"function", "method"}
             /\ ~IsMethodExcluded(inspected[i].name, include_methods,
                                  exclude_children, exclude_methods)
              THEN << inspected[i] >>
          ELSE <<>>)
         \o MethodsFunctions(inspected, i + 1, include_methods,
                             exclude_children, exclude_methods)

\* _collect_class_info, first loop: data['constants']
RECURSIVE ClassConstants(_, _, _)
ClassConstants(inspected, i, exclude_children) ==
    IF i > Len(inspected) THEN <<>>
    ELSE (IF /\ inspected[i].is \notin {"function", "method"}
             /\ inspected[i].is = "data"
             /\ ~StartsWithUnderscore(inspected[i].name)
             /\ ~exclude_children
              THEN << [name  |-> inspected[i].name,
                       value |-> inspected[i].value[1]] >>
          ELSE <<>>)
         \o ClassConstants(inspected, i + 1, exclude_children)

\* _collect_class_info, second loop: data['static_methods'] (static = TRUE)
\* or data['methods'] (static = FALSE)
RECURSIVE ClassMethods(_, _, _, _, _)
ClassMethods(methods_functions, i, static, include_methods, opts) ==
    IF i > Len(methods_functions) THEN <<>>
    ELSE LET m    == methods_functions[i]
             show == \/ opts.collect_private_methods
                     \/ ~StartsWithUnderscore(m.name)
                     \/ m.name \in include_methods
             here == IF m.inDict
                         THEN IF m.static /\ show THEN static
                              ELSE IF show THEN ~static
                              ELSE FALSE
                     ELSE FALSE
         IN  (IF here THEN CollectFunctionInfo(m.func[1]) ELSE <<>>)
             \o ClassMethods(methods_functions, i + 1, static,
                             include_methods, opts)

\* _collect_class_info, lines 1071-1086: the dict data once the first
\* loop has filled methods_functions and data['constants']
ClassData(cls, opts, doc, include_methods, methods_functions, constants) ==
    [methods        |-> ClassMethods(methods_functions, 1, FALSE,
                                     include_methods, opts),
     constants      |-> constants,
     static_methods |-> ClassMethods(methods_functions, 1, TRUE,
                                     include_methods, opts),
     doc            |-> doc,
     name           |-> cls.name]

\* _collect_class_info, lines 1048-1086: the directives of the stripped
\* docstring doc, then the two loops
ClassDirectives(cls, opts, doc, exclude_children, exclude_methods, include_methods) ==
    ClassData(cls, opts, doc, include_methods,
              MethodsFunctions(cls.members, 1, include_methods,
                               exclude_children, exclude_methods),
              ClassConstants(cls.members, 1, exclude_children))

\* str.strip() of the docstring of a class that has one
StrippedDoc(cls) == IF cls.doc # None THEN Strip(cls.doc[1]) ELSE <<>>

\* _collect_class_info without its test of :exclude:
CollectClassInfoOfExcluded(cls, opts) ==
    Some(ClassDirectives(cls, opts, StrippedDoc(cls),
             CheckExclusion(Some(StrippedDoc(cls)), "exclude_children"),
             GetExclusion(Some(StrippedDoc(cls))),
             GetInclusion(Some(StrippedDoc(cls)))))

\* PyDocumentor._collect_class_info: None, or Some of the dict of the class
CollectClassInfo(cls, opts) ==
    IF ~CheckExclusion(cls.doc, "exclude")
        THEN Some(ClassDirectives(cls, opts, StrippedDoc(cls),
                      CheckExclusion(Some(StrippedDoc(cls)), "exclude_children"),
                      GetExclusion(Some(StrippedDoc(cls))),
                      GetInclusion(Some(StrippedDoc(cls)))))
    ELSE None

\* _collect_module_info, the loop: data['classes']
RECURSIVE ModuleClasses(_, _, _)
ModuleClasses(mod, i, opts) ==
    IF i > Len(mod.members) THEN <<>>
    ELSE (IF mod.members[i].is = "class" /\ mod.members[i].module = mod.name
              THEN CollectClassInfo(mod.members[i].cls[1], opts)
          ELSE <<>>)
         \o ModuleClasses(mod, i + 1, opts)

\* _collect_module_info, the loop: data['functions']
RECURSIVE ModuleFunctions(_, _, _)
ModuleFunctions(mod, i, opts) ==
    IF i > Len(mod.members) THEN <<>>
    ELSE (IF /\ ~(mod.members[i].is = "class"
                  /\ mod.members[i].module = mod.name)
             /\ mod.members[i].is = "function"
             /\ mod.members[i].module = mod.name
             /\ \/ opts.collect_private_methods
                \/ ~StartsWithUnderscore(mod.members[i].name)
              THEN CollectFunctionInfo(mod.members[i].func[1])
          ELSE <<>>)
         \o ModuleFunctions(mod, i + 1, opts)

\* _collect_module_info without its test of :exclude:
CollectModuleInfoOfExcluded(mod, opts) ==
    Some([classes   |-> ModuleClasses(mod, 1, opts),
          functions |-> ModuleFunctions(mod, 1, opts),
          name      |-> mod.name,
          doc       |-> IF mod.doc # None /\ mod.doc[1] # <<>>
                            THEN Strip(mod.doc[1])
                        ELSE <<>>])

\* PyDocumentor._collect_module_info: None, or Some of the dict of the module
CollectModuleInfo(mod, opts) ==
    IF ~CheckExclusion(mod.doc, "exclude")
        THEN Some([classes   |-> ModuleClasses(mod, 1, opts),
                   functions |-> ModuleFunctions(mod, 1, opts),
                   name      |-> mod.name,
                   doc       |-> IF mod.doc # None /\ mod.doc[1] # <<>>
                                     THEN Strip(mod.doc[1])
                                 ELSE <<>>])
    ELSE None

---------------------------------------------------------------------------
(* The formatters.  ft is the class of the formatter, "HtmlFormatter" or   *)
(* "MarkdownFormatter"; a hook MarkdownFormatter does not override is      *)
(* Formatter's, which returns "".                                          *)

\* PyDocumentor.HTML, PyDocumentor.MARK_DOWN
HTML == 0

MARK_DOWN == 1

\* a Python string as a fragment
Txt(s) == IF s = "" THEN <<>> ELSE <<s>>

\* sep.join(parts)
RECURSIVE Join(_, _)
Join(parts, sep) ==
    IF parts = <<>> THEN <<>>
    ELSE IF Len(parts) = 1 THEN parts[1]
    ELSE parts[1] \o sep \o Join(Tail(parts), sep)

\* MarkdownFormatter._indentify
RECURSIVE Indentify(_)
Indentify(indent) ==
    IF indent = 0 THEN <<>> ELSE <<"  ">> \o Indentify(indent - 1)

\* "{}".format(value)
StrOf(value) == Txt(value.text)

\* isinstance(value, str)
IsStr(value) == value.type = "str"

\* general_function_signature's loop without its "elif": a keyword
\* variadic parameter would then show as an ordinary one
SignatureParameterWithoutElif(i) ==
    IF i.kind = "VAR_POSITIONAL" THEN <<"*", i.name>>
    ELSE <<i.name>>
         \o (IF i.default # None
                 THEN <<"=">>
                      \o (IF ~(IsStr(i.default[1]) /\ i.default[1].text = "")
                              THEN StrOf(i.default[1])
                          ELSE <<"\"\"">>)
             ELSE <<>>)

\* general_function_signature: one pass of the loop, the string appended to
\* params
SignatureParameter(i) ==
    LET temp == <<i.name>>
                \o (IF i.default # None
                        THEN <<"=">>
                             \o (IF ~(IsStr(i.default[1])
                                      /\ i.default[1].text = "")
                                     THEN StrOf(i.default[1])
                                 ELSE <<"\"\"">>)
                    ELSE <<>>)
    IN  IF i.kind = "VAR_POSITIONAL" THEN <<"*", i.name>>
        ELSE IF i.kind = "VAR_KEYWORD" THEN <<"**", i.name>>
        ELSE temp

RECURSIVE SignatureParameters(_, _)
SignatureParameters(parameters, i) ==
    IF i > Len(parameters) THEN <<>>
    ELSE << SignatureParameter(parameters[i]) >>
         \o SignatureParameters(parameters, i + 1)

\* Formatter.general_function_signature
GeneralFunctionSignature(func_name, parameters) ==
    <<func_name, "(">>
    \o Join(SignatureParameters(parameters, 1), <<", ">>)
    \o <<")">>

\* top_of_file
TopOfFile(ft, opts, css) ==
    IF ft = "HtmlFormatter"
        THEN IF opts.add_css_to_each_file
                 THEN <<"<head><style>">> \o css \o <<"</style></head>">>
             ELSE <<"<head><link rel='stylesheet' type='text/css' href='style.css'></head>">>
    ELSE <<>>

\* module_title
ModuleTitle(ft, title, indent) ==
    IF ft = "HtmlFormatter"
        THEN <<"<div class='module_header'><h2>", title, ".py</h2></div>">>
    ELSE <<"# ", title>>

\* module_start
ModuleStart(ft, indent) ==
    IF ft = "HtmlFormatter" THEN <<"<div class='module'>">> ELSE <<>>

\* MarkdownFormatter.module_doc: the loop that builds doc_list
RECURSIVE QuoteLines(_, _)
QuoteLines(doc, indent_str) ==
    IF doc = <<>> THEN <<>>
    ELSE << Head(doc) >>
         \o (IF Head(doc) = "\n" THEN indent_str \o <<"> ">> ELSE <<>>)
         \o QuoteLines(Tail(doc), indent_str)

\* module_doc
ModuleDoc(ft, doc, indent) ==
    IF ft = "HtmlFormatter" THEN <<"<p>">> \o doc \o <<"</p>">>
    ELSE Indentify(indent) \o <<"> ">> \o QuoteLines(doc, Indentify(indent))

\* module_end
ModuleEnd(ft, indent) ==
    IF ft = "HtmlFormatter" THEN <<"</div>">> ELSE <<>>

\* table_of_contents_start
TableOfContentsStart(ft, indent) ==
    IF ft = "HtmlFormatter" THEN <<"<div class='table_of_contents'>">>
    ELSE <<>>

\* table_of_contents_title
TableOfContentsTitle(ft, prefix, indent) ==
    IF ft = "HtmlFormatter" THEN <<"<h3>Table of Contents</h4>">>
    ELSE <<"### Table of Contents">>

\* table_of_contents_body_start
TableOfContentsBodyStart(ft, indent) ==
    IF ft = "HtmlFormatter" THEN <<"<div class='left_padded'>">> ELSE <<>>

\* table_of_contents_function
TableOfContentsFunction(ft, name, static, prefix, indent) ==
    IF ft = "HtmlFormatter"
        THEN <<"<a href='#", prefix, ".", name, "'>", prefix, ".", name,
               IF static THEN "() (static)</a><br>" ELSE "()</a><br>">>
    ELSE Indentify(indent)
         \o <<"* [{bq}", prefix, ".", name, "(){bq}](#", prefix, ".", name,
              IF static THEN ") (static)" ELSE ")">>

\* table_of_contents_class
TableOfContentsClass(ft, name, prefix, indent) ==
    IF ft = "HtmlFormatter"
        THEN <<"<a href='#", prefix, ".", name, "'>", prefix, ".", name,
               "</a><br>">>
    ELSE Indentify(indent)
         \o <<"* [{bq}", prefix, ".", name, "{bq}](#", prefix, ".", name, ")">>

\* table_of_contents_class_start
TableOfContentsClassStart(ft, indent) ==
    IF ft = "HtmlFormatter" THEN <<"<div class='table_of_contents_class'>">>
    ELSE <<>>

\* table_of_contents_constant
TableOfContentsConstant(ft, name, prefix, indent) ==
    IF ft = "HtmlFormatter"
        THEN <<"<a href='#", prefix, ".", name, "'>", prefix, ".", name,
               "</a><br>">>
    ELSE Indentify(indent)
         \o <<"* [{bq}", prefix, ".", name, "{bq}](#", prefix, ".", name, ")">>

\* table_of_contents_class_end
TableOfContentsClassEnd(ft, indent) ==
    IF ft = "HtmlFormatter" THEN <<"</div>">> ELSE <<>>

\* table_of_contents_body_end
TableOfContentsBodyEnd(ft, indent) ==
    IF ft = "HtmlFormatter" THEN <<"</div>">> ELSE <<>>

\* table_of_contents_end
TableOfContentsEnd(ft, indent) ==
    IF ft = "HtmlFormatter" THEN <<"</div>">> ELSE <<>>

\* function_block_start
FunctionBlockStart(ft, indent) ==
    IF ft = "HtmlFormatter" THEN <<"<div class='left_padded'>">> ELSE <<>>

\* function_start
FunctionStart(ft, indent) ==
    IF ft = "HtmlFormatter" THEN <<"<div class='function'>">> ELSE <<>>

\* function_signature
FunctionSignature(ft, func_name, parameters, prefix, indent) ==
    IF ft = "HtmlFormatter"
        THEN <<"<a id='", prefix, ".", func_name, "' class='function_title'>">>
             \o GeneralFunctionSignature(func_name, parameters)
             \o <<"</a>">>
    ELSE Indentify(indent)
         \o <<"* #### <a name='", prefix, ".", func_name, "'>">>
         \o GeneralFunctionSignature(func_name, parameters)
         \o <<"</a>">>

\* function_body_start
FunctionBodyStart(ft, indent) ==
    IF ft = "HtmlFormatter" THEN <<"<div class='function_body'>">> ELSE <<>>

\* function_doc
FunctionDoc(ft, func_doc, indent) ==
    IF ft = "HtmlFormatter"
        THEN <<"<p class='function_doc'>">> \o func_doc \o <<"</p>">>
    ELSE Indentify(indent) \o <<"> ">> \o func_doc

\* function_parameters: the loop, the list out
RECURSIVE ParameterLines(_, _, _)
ParameterLines(ft, parameters, i) ==
    IF i > Len(parameters) THEN <<>>
    ELSE LET p == parameters[i]
         IN  (IF /\ p.name \notin {"self", "cls"}
                 /\ p.doc # None
                 /\ p.doc[1] # <<>>
                  THEN IF ft = "HtmlFormatter"
                           THEN << <<"<p class='parameter'><a>", p.name,
                                     IF p.default # None
                                         THEN " (optional):</a> "
                                     ELSE ":</a> ">>
                                   \o p.doc[1] \o <<"</p>">> >>
                       ELSE << <<"* {bq}", p.name,
                                 IF p.default # None
                                     THEN "{bq} (optional): "
                                 ELSE "{bq}: ">>
                               \o p.doc[1] >>
              ELSE <<>>)
             \o ParameterLines(ft, parameters, i + 1)

\* function_parameters
FunctionParameters(ft, parameters, indent) ==
    LET lines == ParameterLines(ft, parameters, 1)
    IN  IF ft = "HtmlFormatter" THEN Join(lines, <<"\n">>)
        ELSE IF lines = <<>> THEN <<>>
        ELSE Join(<< Indentify(indent) \o lines[1] >> \o Tail(lines),
                  <<"\n">> \o Indentify(indent))

\* function_return_parameter
FunctionReturnParameter(ft, return_doc, indent) ==
    IF ft = "HtmlFormatter"
        THEN <<"<p class='parameter'><a>return:</a> ">> \o return_doc
             \o <<"</p>">>
    ELSE Indentify(indent) \o <<"* {bq}return:{bq} ">> \o return_doc

\* function_body_end
FunctionBodyEnd(ft, indent) ==
    IF ft = "HtmlFormatter" THEN <<"</div>">> ELSE <<>>

\* function_end
FunctionEnd(ft, indent) ==
    IF ft = "HtmlFormatter" THEN <<"</div>">> ELSE <<>>

\* function_block_end
FunctionBlockEnd(ft, indent) ==
    IF ft = "HtmlFormatter" THEN <<"</div>">> ELSE <<>>

\* class_start
ClassStart(ft, indent) ==
    IF ft = "HtmlFormatter" THEN <<"<div class='class'>">> ELSE <<>>

\* class_title
ClassTitle(ft, title, prefix, indent) ==
    IF ft = "HtmlFormatter"
        THEN <<"<h3 id='", prefix, ".", title, "' >class ", title, "</h3>">>
    ELSE Indentify(indent)
         \o <<"* ## <a name='", prefix, ".", title, "'>class ", title, "</a>">>

\* class_body_start
ClassBodyStart(ft, indent) ==
    IF ft = "HtmlFormatter" THEN <<"<div class='class_body'>">> ELSE <<>>

\* class_doc
ClassDoc(ft, doc, indent) ==
    IF ft = "HtmlFormatter" THEN <<"<p>">> \o doc \o <<"</p>">>
    ELSE Indentify(indent) \o <<"> ">> \o doc

\* class_constants_title
ClassConstantsTitle(ft, indent) ==
    IF ft = "HtmlFormatter" THEN <<"<h4>Constants</h4>">>
    ELSE Indentify(indent) \o <<"* ### Constants">>

\* class_constants_start
ClassConstantsStart(ft, indent) ==
    IF ft = "HtmlFormatter" THEN <<"<div class='left_padded'>">> ELSE <<>>

\* class_constant
ClassConstant(ft, name, value, prefix, indent) ==
    LET shown == IF IsStr(value) THEN <<"\"">> \o StrOf(value) \o <<"\"">>
                 ELSE StrOf(value)
    IN  IF ft = "HtmlFormatter"
            THEN <<"<a id='", prefix, ".", name, "' class='constant'>", name,
                   " = ">> \o shown \o <<"</a><br>">>
        ELSE Indentify(indent)
             \o <<"* <a name='", prefix, ".", name, "'>{bq}", name,
                  "{bq}</a> = ">> \o shown

\* class_constants_end
ClassConstantsEnd(ft, indent) ==
    IF ft = "HtmlFormatter" THEN <<"</div>">> ELSE <<>>

\* static_function_title
StaticFunctionTitle(ft, indent) ==
    IF ft = "HtmlFormatter" THEN <<"<h4>Static Methods</h4>">>
    ELSE Indentify(indent) \o <<"* ### Static Methods">>

\* methods_title
MethodsTitle(ft, indent) ==
    IF ft = "HtmlFormatter" THEN <<"<h4>Methods</h4>">>
    ELSE Indentify(indent) \o <<"* ### Methods">>

\* class_body_end
ClassBodyEnd(ft, indent) ==
    IF ft = "HtmlFormatter" THEN <<"</div>">> ELSE <<>>

\* class_end
ClassEnd(ft, indent) ==
    IF ft = "HtmlFormatter" THEN <<"</div>">> ELSE <<>>

\* FILE_EXT
FileExt(ft) == IF ft = "HtmlFormatter" THEN ".html" ELSE ".md"

---------------------------------------------------------------------------
(* export(): the list out of one module.  An item of out is kept with the  *)
(* hook that made it and what it is about (ref: kind, prefix, name), next  *)
(* to the string itself (text).                                            *)

Entry(hook, ref, text) == [hook |-> hook, ref |-> ref, text |-> text]

NoRef == [kind |-> "", prefix |-> "", name |-> ""]

Ref(kind, prefix, name) == [kind |-> kind, prefix |-> prefix, name |-> name]

\* the two kinds of value export() passes to _format_functions as cls
PyStr(s) == [type |-> "str", name |-> s]

PyDict(d) == [type |-> "dict", name |-> d.name]

\* _format_functions: the loop from funcs[i] on.  cls['name'] raises
\* TypeError when cls is a str; raised says whether it did
RECURSIVE FormatFunctionsLoop(_, _, _, _, _, _)
FormatFunctionsLoop(o, ft, funcs, i, cls, indent) ==
    IF i > Len(funcs) THEN [out |-> o, raised |-> FALSE]
    ELSE LET func == funcs[i]
             o1 == Append(o, Entry("function_start", NoRef,
                                   FunctionStart(ft, indent)))
         IN  IF cls.type # "dict" THEN [out |-> o1, raised |-> TRUE]
             ELSE LET o2 == o1 \o
                        << Entry("function_signature",
                                 Ref("function", cls.name, func.name),
                                 FunctionSignature(ft, func.name,
                                     func.parameters, cls.name, indent)),
                           Entry("function_body_start", NoRef,
                                 FunctionBodyStart(ft, indent)),
                           Entry("function_doc", NoRef,
                                 FunctionDoc(ft, func.doc, indent + 1)),
                           Entry("function_parameters", NoRef,
                                 FunctionParameters(ft, func.parameters,
                                                    indent + 1)) >>
                      o3 == IF func.return # <<>>
                                THEN Append(o2,
                                         Entry("function_return_parameter",
                                               NoRef,
                                               FunctionReturnParameter(ft,
                                                   func.return, indent + 1)))
                            ELSE o2
                      o4 == o3 \o
                        << Entry("function_body_end", NoRef,
                                 FunctionBodyEnd(ft, indent)),
                           Entry("function_end", NoRef,
                                 FunctionEnd(ft, indent)) >>
                  IN  FormatFunctionsLoop(o4, ft, funcs, i + 1, cls, indent)

\* the items appended once what came before is done: nothing is appended
\* after an exception
FormatEnd(r, items) ==
    IF r.raised THEN r ELSE [out |-> r.out \o items, raised |-> FALSE]

\* PyDocumentor._format_functions
FormatFunctions(o, ft, funcs, cls, indent) ==
    FormatEnd(
        FormatFunctionsLoop(
            Append(o, Entry("function_block_start", NoRef,
                            FunctionBlockStart(ft, indent - 1))),
            ft, funcs, 1, cls, indent),
        << Entry("function_block_end", NoRef,
                 FunctionBlockEnd(ft, indent - 1)) >>)

\* export, the loops of table_of_contents_function calls
TocFunctions(ft, funcs, static, prefix, indent) ==
    [i \in 1..Len(funcs) |->
        Entry("table_of_contents_function",
              Ref("function", prefix, funcs[i].name),
              TableOfContentsFunction(ft, funcs[i].name, static, prefix,
                                      indent))]

\* export, lines 1298-1300
TocConstants(ft, constants, prefix) ==
    [i \in 1..Len(constants) |->
        Entry("table_of_contents_constant",
              Ref("constant", prefix, constants[i].name),
              TableOfContentsConstant(ft, constants[i].name, prefix, 2))]

\* export, lines 1293-1310: the loop from mod['classes'][i] on
RECURSIVE TocClasses(_, _, _)
TocClasses(ft, mod, i) ==
    IF i > Len(mod.classes) THEN <<>>
    ELSE LET cls == mod.classes[i]
         IN  << Entry("table_of_contents_class",
                      Ref("class", mod.name, cls.name),
                      TableOfContentsClass(ft, cls.name, mod.name, 1)),
                Entry("table_of_contents_class_start", NoRef,
                      TableOfContentsClassStart(ft, 1)) >>
             \o TocConstants(ft, cls.constants, cls.name)
             \o TocFunctions(ft, cls.static_methods, TRUE, cls.name, 2)
             \o TocFunctions(ft, cls.methods, FALSE, cls.name, 2)
             \o << Entry("table_of_contents_class_end", NoRef,
                         TableOfContentsClassEnd(ft, 1)) >>
             \o TocClasses(ft, mod, i + 1)

\* export, lines 1286-1312
TableOfContents(ft, mod) ==
    << Entry("table_of_contents_start", NoRef, TableOfContentsStart(ft, 0)),
       Entry("table_of_contents_title", NoRef,
             TableOfContentsTitle(ft, mod.name, 0)),
       Entry("table_of_contents_body_start", NoRef,
             TableOfContentsBodyStart(ft, 0)) >>
    \o TocFunctions(ft, mod.functions, FALSE, mod.name, 1)
    \o TocClasses(ft, mod, 1)
    \o << Entry("table_of_contents_body_end", NoRef,
                TableOfContentsBodyEnd(ft, 0)),
          Entry("table_of_contents_end", NoRef, TableOfContentsEnd(ft, 0)) >>

\* export, lines 1326-1328
BodyConstants(ft, cls) ==
    [i \in 1..Len(cls.constants) |->
        Entry("class_constant",
              Ref("constant", cls.name, cls.constants[i].name),
              ClassConstant(ft, cls.constants[i].name,
                            cls.constants[i].value, cls.name, 3))]

\* export, lines 1318-1321
ClassHead(o, ft, mod, cls) ==
    o \o << Entry("class_start", NoRef, ClassStart(ft, 1)),
            Entry("class_title", Ref("class", mod.name, cls.name),
                  ClassTitle(ft, cls.name, mod.name, 1)),
            Entry("class_body_start", NoRef, ClassBodyStart(ft, 1)),
            Entry("class_doc", NoRef, ClassDoc(ft, cls.doc, 2)) >>

\* export, lines 1323-1329
ClassConstantsBlock(o, ft, cls) ==
    IF cls.constants # <<>>
        THEN o \o << Entry("class_constants_title", NoRef,
                           ClassConstantsTitle(ft, 2)),
                     Entry("class_constants_start", NoRef,
                           ClassConstantsStart(ft, 2)) >>
               \o BodyConstants(ft, cls)
               \o << Entry("class_constants_end", NoRef,
                           ClassConstantsEnd(ft, 2)) >>
    ELSE o

\* export, lines 1331-1333
ClassStaticBlock(o, ft, cls) ==
    IF cls.static_methods # <<>>
        THEN FormatFunctions(
                 Append(o, Entry("static_function_title", NoRef,
                                 StaticFunctionTitle(ft, 2))),
                 ft, cls.static_methods, PyDict(cls), 3)
    ELSE [out |-> o, raised |-> FALSE]

\* export, lines 1335-1337, r being the outcome so far
ClassMethodsBlock(r, ft, cls) ==
    IF r.raised THEN r
    ELSE IF cls.methods # <<>>
        THEN FormatFunctions(
                 Append(r.out, Entry("methods_title", NoRef,
                                     MethodsTitle(ft, 2))),
                 ft, cls.methods, PyDict(cls), 3)
    ELSE r

\* export, lines 1318-1337: one class
BodyClass(o, ft, mod, cls) ==
    ClassMethodsBlock(
        ClassStaticBlock(
            ClassConstantsBlock(ClassHead(o, ft, mod, cls), ft, cls),
            ft, cls),
        ft, cls)

\* export, lines 1317-1340: the loop from mod['classes'][i] on, r being the
\* outcome so far
RECURSIVE BodyClasses(_, _, _, _)
BodyClasses(r, ft, mod, i) ==
    IF r.raised \/ i > Len(mod.classes) THEN r
    ELSE BodyClasses(
             FormatEnd(BodyClass(r.out, ft, mod, mod.classes[i]),
                       << Entry("class_body_end", NoRef, ClassBodyEnd(ft, 1)),
                          Entry("class_end", NoRef, ClassEnd(ft, 1)) >>),
             ft, mod, i + 1)

\* export, lines 1276-1283
ModuleHead(ft, mod, opts, css) ==
    << Entry("top_of_file", NoRef, TopOfFile(ft, opts, css)),
       Entry("module_title", NoRef, ModuleTitle(ft, mod.name, 0)),
       Entry("module_start", NoRef, ModuleStart(ft, 0)),
       Entry("module_doc", NoRef, ModuleDoc(ft, mod.doc, 1)) >>

\* export, lines 1314-1315
ModuleFunctionsBlock(o, ft, mod) ==
    IF mod.functions # <<>>
        THEN FormatFunctions(o, ft, mod.functions, PyStr(mod.name), 1)
    ELSE [out |-> o, raised |-> FALSE]

\* export, lines 1276-1342: the list out of the module mod, and whether
\* building it raised
ExportModule(ft, mod, opts, css) ==
    FormatEnd(
        BodyClasses(
            ModuleFunctionsBlock(
                ModuleHead(ft, mod, opts, css)
                \o (IF opts.table_of_contents THEN TableOfContents(ft, mod)
                    ELSE <<>>),
                ft, mod),
            ft, mod, 1),
        << Entry("module_end", NoRef, ModuleEnd(ft, 0)) >>)

\* export, lines 1345-1348: the strings of out that are not empty
RECURSIVE Cleaned(_)
Cleaned(o) ==
    IF o = <<>> THEN <<>>
    ELSE (IF Head(o).text # <<>> THEN << Head(o).text >> ELSE <<>>)
         \o Cleaned(Tail(o))

\* export, line 1350
FormattedString(o) == Join(Cleaned(o), <<"\n">>)

\* export, lines 1265-1270
FormatterOf(output_format) ==
    IF output_format = HTML THEN "HtmlFormatter" ELSE "MarkdownFormatter"

---------------------------------------------------------------------------
(* The inputs of a run: the files the user names and what importing and    *)
(* inspecting them yields                                                  *)

Param(name) ==
    [name |-> name, kind |-> "POSITIONAL_OR_KEYWORD", default |-> None]

IntValue(text) == [type |-> "int", text |-> text]

StrValue(text) == [type |-> "str", text |-> text]

\* a line holding the directive :exclude: and nothing else
ExcludeLine == <<":", "exclude", ":", "\n">>

\* "does a thing\n:param x: the value\n:return: the result"
DocOfF ==
    <<"does", " ", "a", " ", "thing", "\n",
      ":", "param", " ", "x", ":", " ", "the", " ", "value", "\n",
      ":", "return", ":", " ", "the", " ", "result">>

FunctionF == [name |-> "f", doc |-> Some(DocOfF), params |-> <<Param("x")>>]

FunctionG == [name |-> "_g", doc |-> None, params |-> <<>>]

MethodPrivate ==
    [name |-> "_h", doc |-> Some(<<"Private", ".">>),
     params |-> <<Param("self")>>]

FunctionSkip ==
    [name |-> "skip",
     doc |-> Some(<<"Not", " ", "shown", ".", "\n">> \o ExcludeLine),
     params |-> <<>>]

\* a function the module imported from another module
FunctionWalk == [name |-> "walk", doc |-> None, params |-> <<Param("top")>>]

MethodH == [name |-> "base", doc |-> Some(<<"Inherited", ".">>),
            params |-> <<Param("self")>>]

MethodM ==
    [name |-> "count",
     doc |-> Some(<<"Counts", ".", "\n", ":", "param", " ", "n", ":", " ",
                    "how", " ", "many">>),
     params |-> <<Param("self"),
                  [name |-> "n", kind |-> "POSITIONAL_OR_KEYWORD",
                   default |-> Some(IntValue("1"))]>>]

MethodS ==
    [name |-> "s", doc |-> Some(<<"Static", ".">>),
     params |-> <<Param("a"),
                  [name |-> "args", kind |-> "VAR_POSITIONAL",
                   default |-> None]>>]

MethodRun ==
    [name |-> "run",
     doc |-> Some(<<"Runs", ".", "\n", ":", "return", ":", " ", "nothing">>),
     params |-> <<Param("self")>>]

MethodHide ==
    [name |-> "hide",
     doc |-> Some(<<"Hidden", ".", "\n">> \o ExcludeLine),
     params |-> <<Param("self")>>]

DataMember(name, value) ==
    [name |-> name, is |-> "data", inDict |-> TRUE, static |-> FALSE,
     func |-> None, value |-> Some(value)]

FunctionMember(func, is, inDict, static) ==
    [name |-> func.name, is |-> is, inDict |-> inDict, static |-> static,
     func |-> Some(func), value |-> None]

\* getmembers(A), in its order
MembersOfA ==
    <<DataMember("K", IntValue("3")),
      DataMember("NAME", StrValue("n")),
      DataMember("_secret", IntValue("0")),
      FunctionMember(MethodH, "function", FALSE, FALSE),
      FunctionMember(MethodHide, "function", TRUE, FALSE),
      FunctionMember(MethodM, "function", TRUE, FALSE),
      FunctionMember(MethodS, "function", TRUE, TRUE)>>

DocsOfA ==
    {None,
     Some(<<"Class", " ", "A", ".">>),
     Some(<<"Class", " ", "A", ".", "\n">> \o ExcludeLine),
     Some(<<"Class", " ", "A", ".", "\n", ":", "exclude_methods", ":", "\n",
            ":", "include_methods", " ", "s", ":", "\n">>),
     Some(<<"Class", " ", "A", ".", "\n", ":", "exclude_children", ":", "\n",
            "More", ".">>)}

ClassesA == {[name |-> "A", doc |-> d, members |-> MembersOfA] : d \in DocsOfA}

\* getmembers(B), in its order
MembersOfB ==
    <<FunctionMember(MethodPrivate, "function", TRUE, FALSE),
      FunctionMember(MethodRun, "function", TRUE, FALSE)>>

ClassesB ==
    {[name |-> "B", doc |-> d, members |-> MembersOfB] :
        d \in {Some(<<"Class", " ", "B", ".">>),
               Some(ExcludeLine \o <<"Class", " ", "B", ".">>)}}

ClassMember(cls, module) ==
    [name |-> cls.name, is |-> "class", module |-> module,
     cls |-> Some(cls), func |-> None]

ModuleFunction(func, module) ==
    [name |-> func.name, is |-> "function", module |-> module,
     cls |-> None, func |-> Some(func)]

\* the classes getmembers(mod) yields
ClassParts(module) ==
    {<<>>}
    \cup {<<ClassMember(a, module)>> : a \in ClassesA}
    \cup {<<ClassMember([name |-> "A", doc |-> Some(<<"Class", " ", "A", ".">>),
                         members |-> MembersOfA], module),
            ClassMember(b, module)>> : b \in ClassesB}

\* the functions getmembers(mod) yields
FunctionParts(module) ==
    {<<>>,
     <<ModuleFunction(FunctionSkip, module), ModuleFunction(FunctionWalk, "os")>>,
     <<ModuleFunction(FunctionF, module)>>,
     <<ModuleFunction(FunctionG, module), ModuleFunction(FunctionF, module),
       ModuleFunction(FunctionSkip, module)>>}

ModuleDocs ==
    {None,
     Some(<<"\n", "Module", " ", "docs", ".", "\n">>),
     Some(<<"Module", " ", "docs", ".", "\n">> \o ExcludeLine)}

Modules(name) ==
    {[name |-> name, doc |-> d, members |-> c \o f] :
        d \in ModuleDocs, c \in ClassParts(name), f \in FunctionParts(name)}

FilePath(folder, stem) == [dir |-> <<folder>>, stem |-> stem, ext |-> ".py"]

\* the files that import
Files(stem) ==
    {[path |-> FilePath("src", stem), load |-> "ok", mod |-> m] :
        m \in Modules(stem)}

\* the files whose import raises: load is the exception
BrokenFiles(stem) ==
    {[path |-> FilePath("src", stem), load |-> e,
      mod |-> [name |-> stem, doc |-> None, members |-> <<>>]] :
        e \in {"ImportError", "SyntaxError"}}

\* the files besides the first: by position, so that no two files of a
\* batch share a path
CompanionStems == <<"lib", "util", "core">>

Companions(stem) ==
    { [path |-> FilePath("src", stem), load |-> "ok",
       mod |-> [name |-> stem, doc |-> Some(<<"Library", ".">>),
                members |-> <<ClassMember(
                    [name |-> "B", doc |-> Some(<<"Class", " ", "B", ".">>),
                     members |-> MembersOfB], stem)>>]],
      [path |-> FilePath("src", stem), load |-> "ok",
       mod |-> [name |-> stem,
                doc |-> Some(<<"Internal", ".", "\n">> \o ExcludeLine),
                members |-> <<ModuleFunction(FunctionF, stem)>>]] }
    \cup BrokenFiles(stem)

\* sequences of exactly n companions, the first named CompanionStems[k + 1]
RECURSIVE CompanionSeqs(_, _)
CompanionSeqs(n, k) ==
    IF n = 0 THEN {<<>>}
    ELSE {<<c>> \o q : c \in Companions(CompanionStems[k + 1]),
                       q \in CompanionSeqs(n - 1, k + 1)}

\* self._file_paths: one file of the whole universe, before and after it
\* at most MaxCompanions others
Batches ==
    UNION {{pre \o <<f>> \o post :
                f \in Files("m") \cup BrokenFiles("m"),
                pre \in CompanionSeqs(ab[1], 0),
                post \in CompanionSeqs(ab[2], ab[1])} :
           ab \in {x \in (0..MaxCompanions) \X (0..MaxCompanions) :
                       x[1] + x[2] <= MaxCompanions}}

\* _get_user_options: the options a user can end up with;
\* add_css_to_each_file keeps its default (True) unless the format is HTML
OptionSets ==
    {o \in [table_of_contents : BOOLEAN, collect_private_methods : BOOLEAN,
            output_format : {HTML, MARK_DOWN},
            add_css_to_each_file : BOOLEAN,
            output_directory : {"docs"}, output_folder_name : {"api"}] :
        o.output_format = HTML \/ o.add_css_to_each_file}

---------------------------------------------------------------------------
(* The run of __main__: PyDocumentor(), display_overview(), export() *)

\* the stylesheet HtmlFormatter.free_run reads
StyleSheet == <<"body", " ", "{", "}">>

\* d[key] = value for a dict kept as the sequence of its [key, value] items
\* in insertion order
RECURSIVE DictSet(_, _, _)
DictSet(d, key, value) ==
    IF d = <<>> THEN << [key |-> key, value |-> value] >>
    ELSE IF Head(d).key = key
        THEN << [key |-> key, value |-> value] >> \o Tail(d)
    ELSE << Head(d) >> \o DictSet(Tail(d), key, value)

DictKeys(d) == {d[i].key : i \in 1..Len(d)}

DictGet(d, key) == d[CHOOSE i \in 1..Len(d) : d[i].key = key].value

Terminal == {"done", "quit", "raised"}

Init ==
    /\ pc = "import"
    /\ options \in OptionSets
    /\ file_paths \in Batches
    /\ modules = <<>>
    /\ collected_data = <<>>
    /\ out = <<>>
    /\ formatted_data = <<>>
    /\ files = <<>>
    /\ console = <<>>
    /\ idx = 1
    /\ call = <<>>
    /\ ret = <<>>

\* _import_modules with "continue" where it has quit(): a file that fails
\* to import would be reported and passed over
ImportModuleAndContinue ==
    /\ pc = "import"
    /\ idx <= Len(file_paths)
    /\ LET f == file_paths[idx]
       IN  \/ /\ f.load = "ok"
              /\ modules' = Append(modules,
                                [name |-> f.mod.name, doc |-> f.mod.doc,
                                 members |-> f.mod.members, file |-> f.path])
              /\ idx' = idx + 1
              /\ UNCHANGED <<pc, console>>
           \/ /\ f.load = "ImportError"
              /\ console' = Append(console,
                                [print |-> "There was an error importing",
                                 path |-> f.path])
              /\ idx' = idx + 1
              /\ UNCHANGED <<modules, pc>>
           \/ /\ f.load \notin {"ok", "ImportError"}
              /\ console' = Append(console,
                                [print |-> "Traceback", path |-> f.path])
              /\ pc' = "raised"
              /\ UNCHANGED <<modules, idx>>
    /\ UNCHANGED <<options, file_paths, collected_data, out, formatted_data,
                   files, call, ret>>

\* _import_modules: one pass of the loop over self._file_paths
ImportModule ==
    /\ pc = "import"
    /\ idx <= Len(file_paths)
    /\ LET f == file_paths[idx]
       IN  \/ /\ f.load = "ok"
              /\ modules' = Append(modules,
                                [name |-> f.mod.name, doc |-> f.mod.doc,
                                 members |-> f.mod.members, file |-> f.path])
              /\ idx' = idx + 1
              /\ UNCHANGED <<pc, console>>
           \/ /\ f.load = "ImportError"
              /\ console' = Append(console,
                                [print |-> "There was an error importing",
                                 path |-> f.path])
              /\ pc' = "quit"
              /\ UNCHANGED <<modules, idx>>
           \/ /\ f.load \notin {"ok", "ImportError"}
              /\ console' = Append(console,
                                [print |-> "Traceback", path |-> f.path])
              /\ pc' = "raised"
              /\ UNCHANGED <<modules, idx>>
    /\ UNCHANGED <<options, file_paths, collected_data, out, formatted_data,
                   files, call, ret>>

\* _import_modules returns; __init__ goes on to collect
ImportReturn ==
    /\ pc = "import"
    /\ idx > Len(file_paths)
    /\ pc' = "collect"
    /\ idx' = 1
    /\ UNCHANGED <<options, file_paths, modules, collected_data, out,
                   formatted_data, files, console, call, ret>>

\* __init__: one pass of the loop over modules
CollectModule ==
    /\ pc = "collect"
    /\ idx <= Len(modules)
    /\ \E data \in {CollectModuleInfo(modules[idx], options)} :
           collected_data' = IF data # None
                                 THEN DictSet(collected_data,
                                              modules[idx].file, data[1])
                             ELSE collected_data
    /\ idx' = idx + 1
    /\ UNCHANGED <<pc, options, file_paths, modules, out, formatted_data,
                   files, console, call, ret>>

\* __init__ returning from inside its loop: export() would start with
\* modules not yet collected
CollectReturnEarly ==
    /\ pc = "collect"
    /\ pc' = "overview"
    /\ UNCHANGED <<options, file_paths, modules, collected_data, out,
                   formatted_data, files, console, idx, call, ret>>

\* __init__ returns
CollectReturn ==
    /\ pc = "collect"
    /\ idx > Len(modules)
    /\ pc' = "overview"
    /\ UNCHANGED <<options, file_paths, modules, collected_data, out,
                   formatted_data, files, console, idx, call, ret>>

\* display_overview: the module names with the names of their classes
DisplayOverview ==
    /\ pc = "overview"
    /\ console' = Append(console,
                      [print |-> "Collected Modules & Classes:",
                       names |-> [i \in 1..Len(collected_data) |->
                           <<collected_data[i].value.name>>
                           \o [j \in 1..Len(collected_data[i].value.classes)
                                 |-> collected_data[i].value.classes[j].name]]])
    /\ pc' = "export"
    /\ UNCHANGED <<options, file_paths, modules, collected_data, out,
                   formatted_data, files, idx, call, ret>>

\* export, lines 1256-1272: the export directory and the formatter
ExportBegin ==
    /\ pc = "export"
    /\ \/ /\ pc' = "render"
          /\ idx' = 1
          /\ UNCHANGED console
       \/ /\ console' = Append(console,
                            [print |-> "PermissionError trying to create folder",
                             path |-> <<options.output_directory,
                                        options.output_folder_name>>])
          /\ pc' = "quit"
          /\ UNCHANGED idx
    /\ UNCHANGED <<options, file_paths, modules, collected_data, out,
                   formatted_data, files, call, ret>>

\* HtmlFormatter.free_run: the files after it
FreeRun(ft, opts, fs) ==
    IF ft = "HtmlFormatter" /\ ~opts.add_css_to_each_file
        THEN DictSet(fs, [dir |-> <<opts.output_directory>>,
                          stem |-> "style", ext |-> ".css"], StyleSheet)
    ELSE fs

\* export with "out = []" before the loop instead of in it: the list of
\* one module would begin with what was rendered before
RenderModuleKeepingOut ==
    /\ pc = "render"
    /\ idx <= Len(collected_data)
    /\ \E ft \in {FormatterOf(options.output_format)} :
       \E r \in {ExportModule(ft, collected_data[idx].value, options,
                              StyleSheet)} :
           /\ files' = FreeRun(ft, options, files)
           /\ out' = out \o r.out
           /\ \/ /\ ~r.raised
                 /\ formatted_data' = DictSet(formatted_data,
                                          collected_data[idx].key,
                                          FormattedString(out \o r.out))
                 /\ idx' = idx + 1
                 /\ UNCHANGED <<pc, console>>
              \/ /\ r.raised
                 /\ console' = Append(console,
                                   [print |-> "Traceback",
                                    path |-> collected_data[idx].key])
                 /\ pc' = "raised"
                 /\ UNCHANGED <<formatted_data, idx>>
    /\ UNCHANGED <<options, file_paths, modules, collected_data, call, ret>>

\* export: one pass of the loop over self._collected_data
RenderModule ==
    /\ pc = "render"
    /\ idx <= Len(collected_data)
    /\ \E ft \in {FormatterOf(options.output_format)} :
       \E r \in {ExportModule(ft, collected_data[idx].value, options,
                              StyleSheet)} :
           /\ files' = FreeRun(ft, options, files)
           /\ out' = r.out
           /\ \/ /\ ~r.raised
                 /\ formatted_data' = DictSet(formatted_data,
                                          collected_data[idx].key,
                                          FormattedString(r.out))
                 /\ idx' = idx + 1
                 /\ UNCHANGED <<pc, console>>
              \/ /\ r.raised
                 /\ console' = Append(console,
                                   [print |-> "Traceback",
                                    path |-> collected_data[idx].key])
                 /\ pc' = "raised"
                 /\ UNCHANGED <<formatted_data, idx>>
    /\ UNCHANGED <<options, file_paths, modules, collected_data, call, ret>>

\* _file_writer: one file per item of data
RECURSIVE FileWriter(_, _, _, _)
FileWriter(fs, output_dir, data, file_ext) ==
    IF data = <<>> THEN fs
    ELSE FileWriter(DictSet(fs, [dir |-> output_dir,
                                 stem |-> Head(data).key.stem,
                                 ext |-> file_ext], Head(data).value),
                    output_dir, Tail(data), file_ext)

\* export, lines 1352-1354
ExportWrite ==
    /\ pc = "render"
    /\ idx > Len(collected_data)
    /\ files' = FileWriter(files, <<options.output_directory,
                                    options.output_folder_name>>,
                           formatted_data,
                           FileExt(FormatterOf(options.output_format)))
    /\ console' = Append(console, [print |-> "Export Successful!"])
    /\ pc' = "done"
    /\ UNCHANGED <<options, file_paths, modules, collected_data, out,
                   formatted_data, idx, call, ret>>

Next ==
    \/ ImportModule
    \/ ImportReturn
    \/ CollectModule
    \/ CollectReturn
    \/ DisplayOverview
    \/ ExportBegin
    \/ RenderModule
    \/ ExportWrite

Spec == Init /\ [][Next]_vars

---------------------------------------------------------------------------
(* export() called again on the same PyDocumentor: call keeps, for every  *)
(* export that has ended, how it ended and what it left                    *)

\* the batches of one file, and of one file and the file lib.py after it
TwiceBatches ==
    {<<f>> : f \in Files("m") \cup BrokenFiles("m")}
    \cup {<<f, c>> : f \in Files("m"),
                     c \in {x \in Companions("lib") : x.load = "ok"}}

TwiceInit ==
    /\ pc = "import"
    /\ options \in OptionSets
    /\ file_paths \in TwiceBatches
    /\ modules = <<>>
    /\ collected_data = <<>>
    /\ out = <<>>
    /\ formatted_data = <<>>
    /\ files = <<>>
    /\ console = <<>>
    /\ idx = 1
    /\ call = <<>>
    /\ ret = <<>>

\* export, lines 1256-1273, called after an export that has returned or
\* raised: the export directory exists, formatted_data is empty again
ExportAgain ==
    /\ pc \in {"done", "raised"}
    /\ out # <<>>
    /\ Len(call) < MaxExports - 1
    /\ call' = Append(call, [pc |-> pc, out |-> out,
                             formatted_data |-> formatted_data,
                             files |-> files])
    /\ formatted_data' = <<>>
    /\ pc' = "render"
    /\ idx' = 1
    /\ UNCHANGED <<options, file_paths, modules, collected_data, out, files,
                   console, ret>>

TwiceNext ==
    \/ ImportModule
    \/ ImportReturn
    \/ CollectModule
    \/ CollectReturn
    \/ DisplayOverview
    \/ ExportBegin
    \/ RenderModule
    \/ ExportWrite
    \/ ExportAgain

SpecTwice == TwiceInit /\ [][TwiceNext]_vars

---------------------------------------------------------------------------
(* The functions on their own.  A unit run holds in call the arguments of  *)
(* one call and in ret, once an action has applied the function, what it   *)
(* returned; the variables of the whole run stay as constructed.           *)

UnitInit ==
    /\ pc = "unit"
    /\ options = <<>>
    /\ file_paths = <<>>
    /\ modules = <<>>
    /\ collected_data = <<>>
    /\ out = <<>>
    /\ formatted_data = <<>>
    /\ files = <<>>
    /\ console = <<>>
    /\ idx = 1
    /\ ret = <<>>

\* what a unit action leaves alone
unitFrame == <<options, file_paths, modules, collected_data, out,
               formatted_data, files, console, idx, call>>

---------------------------------------------------------------------------
(* Signatures: general_function_signature and the two function_signature   *)

\* the values a default can be: 1, "" and "s"
Defaults == {IntValue("1"), StrValue(""), StrValue("s")}

\* the parameters a signature is made of, slot by slot in the order Python
\* lets them be declared: a, b, *args, k (keyword-only), **kwargs
Slot(name, kind) ==
    {[name |-> name, kind |-> kind, default |-> d] :
        d \in {None} \cup {Some(v) : v \in Defaults}}

SlotChoices ==
    << {<<>>} \cup {<<p>> : p \in Slot("a", "POSITIONAL_OR_KEYWORD")},
       {<<>>} \cup {<<p>> : p \in Slot("b", "POSITIONAL_OR_KEYWORD")},
       {<<>>, <<[name |-> "args", kind |-> "VAR_POSITIONAL",
                 default |-> None]>>},
       {<<>>} \cup {<<p>> : p \in Slot("k", "KEYWORD_ONLY")},
       {<<>>, <<[name |-> "kwargs", kind |-> "VAR_KEYWORD",
                 default |-> None]>>} >>

\* the parameter lists of at most MaxParams parameters in which no
\* positional parameter without a default follows one with a default
ParameterLists ==
    {l \in {a \o b \o c \o d \o e :
                a \in SlotChoices[1], b \in SlotChoices[2],
                c \in SlotChoices[3], d \in SlotChoices[4],
                e \in SlotChoices[5]} :
        /\ Len(l) <= MaxParams
        /\ ~(/\ Len(l) >= 2
             /\ l[1].name = "a" /\ l[2].name = "b"
             /\ l[1].default # None /\ l[2].default = None)}

SigInit ==
    /\ UnitInit
    /\ call \in {[func_name |-> n, parameters |-> l, prefix |-> "m"] :
                    n \in {"name", "f"}, l \in ParameterLists}

CallGeneralFunctionSignature ==
    /\ pc = "unit"
    /\ ret' = [fn |-> "general_function_signature",
               value |-> GeneralFunctionSignature(call.func_name,
                                                  call.parameters)]
    /\ pc' = "returned"
    /\ UNCHANGED unitFrame

CallFunctionSignature ==
    /\ pc = "unit"
    /\ \E ft \in {"HtmlFormatter", "MarkdownFormatter"} :
           ret' = [fn |-> "function_signature", ft |-> ft,
                   value |-> FunctionSignature(ft, call.func_name,
                                               call.parameters, call.prefix,
                                               1)]
    /\ pc' = "returned"
    /\ UNCHANGED unitFrame

SigNext == CallGeneralFunctionSignature \/ CallFunctionSignature

SpecSig == SigInit /\ [][SigNext]_vars

---------------------------------------------------------------------------
(* Function docstrings: _analyze_function_docs and _collect_function_info  *)

DocAlphabet == {":", " ", "\n", "param", "return", "x", "text"}

\* the texts of at most n lexemes over DocAlphabet
RECURSIVE Texts(_)
Texts(n) ==
    IF n = 0 THEN {<<>>}
    ELSE Texts(n - 1)
         \cup {Append(t, c) : t \in {u \in Texts(n - 1) : Len(u) = n - 1},
                              c \in DocAlphabet}

\* no two word lexemes are adjacent
WellLexed(t) == \A i \in 1..(Len(t) - 1) : ~(IsWord(t[i]) /\ IsWord(t[i + 1]))

DocTexts == {t \in Texts(MaxDocLen) : WellLexed(t)}

\* the entries a docstring is put together from: :param name: info, the
\* names FUNCTION and RETURN among the names, and :return: info
DocEntries ==
    {<<":", "param", " ", n, ":">> \o i \o <<"\n">> :
        n \in {"x", "FUNCTION", "RETURN"},
        i \in {<<" ", "a">>, <<" ", "a", ":", " ", "b">>}}
    \cup {<<":", "return", ":">> \o i \o <<"\n">> :
              i \in {<<>>, <<" ", "r">>, <<" ", "r", ":", " ", "s">>}}

\* the sequences of at most n entries, one after the other
RECURSIVE EntrySeqs(_)
EntrySeqs(n) ==
    IF n = 0 THEN {<<>>}
    ELSE EntrySeqs(n - 1)
         \cup {e \o q : e \in DocEntries, q \in EntrySeqs(n - 1)}

\* a description, or none, and at least one entry after it
EntryTexts ==
    {d \o q : d \in {<<>>, <<"text", "\n">>, <<" ", "text", ".", " ">>},
              q \in EntrySeqs(MaxEntries) \ {<<>>}}

DocsInit ==
    /\ UnitInit
    /\ call \in {[func |-> [name |-> "f", doc |-> d,
                            params |-> <<Param("x")>>]] :
                    d \in {None} \cup {Some(t) : t \in DocTexts}}
               \cup {[func |-> [name |-> "f", doc |-> Some(t), params |-> l]] :
                        t \in EntryTexts,
                        l \in {<<Param("x")>>,
                               <<Param("FUNCTION"), Param("x")>>}}

CallAnalyzeFunctionDocs ==
    /\ pc = "unit"
    /\ ret' = [fn |-> "_analyze_function_docs",
               value |-> AnalyzeFunctionDocs(IF call.func.doc # None
                                                 THEN call.func.doc[1]
                                             ELSE <<>>)]
    /\ pc' = "returned"
    /\ UNCHANGED unitFrame

CallCollectFunctionInfo ==
    /\ pc = "unit"
    /\ ret' = [fn |-> "_collect_function_info",
               value |-> CollectFunctionInfo(call.func)]
    /\ pc' = "returned"
    /\ UNCHANGED unitFrame

DocsNext == CallAnalyzeFunctionDocs \/ CallCollectFunctionInfo

SpecDocs == DocsInit /\ [][DocsNext]_vars

---------------------------------------------------------------------------
(* Classes: _collect_class_info of one class C with the constants K and    *)
(* _secret, a function f and a function _g                                 *)

FunctionDocs == {None, Some(<<"Plain", ".">>),
                 Some(<<"Plain", ".", "\n">> \o ExcludeLine)}

\* the lines a class docstring is put together from
ExcludeChildrenLines == {<<>>, <<":", "exclude_children", ":", "\n">>}

ExcludeMethodsLines ==
    {<<>>,
     <<":", "exclude_methods", ":", "\n">>,
     <<":", "exclude_methods", " ", "f", ":", "\n">>,
     <<":", "exclude_methods", " ", "f", ",", " ", "_g", ":", "\n">>,
     <<":", "exclude_methods", " ", "f", " ", "_g", ":", "\n">>,
     <<":", "exclude_methods", " ", "f", ",", ":", "\n">>,
     <<":", "exclude_methods", ":", " ", "f", "\n">>}

IncludeMethodsLines ==
    {<<>>,
     <<":", "include_methods", " ", "f", ":", "\n">>,
     <<":", "include_methods", " ", "f", ",", " ", "_g", ":", "\n">>,
     <<":", "include_methods", " ", "f", " ", "_g", ":", "\n">>,
     <<":", "include_methods", ":", " ", "f", "\n">>}

ClassDocs ==
    {<<"Class", " ", "C", ".", "\n">> \o x \o c \o e \o i \o t :
        x \in {<<>>, ExcludeLine}, c \in ExcludeChildrenLines,
        e \in ExcludeMethodsLines, i \in IncludeMethodsLines,
        t \in {<<>>, <<"End", ".">>}}

ClassesC ==
    {[name |-> "C", doc |-> Some(d),
      members |->
        <<DataMember("K", IntValue("3")),
          FunctionMember([name |-> "_g", doc |-> None,
                          params |-> <<Param("self")>>],
                         "function", TRUE, FALSE),
          DataMember("_secret", IntValue("0")),
          FunctionMember([name |-> "f", doc |-> fd,
                          params |-> <<Param("self")>>],
                         "function", inDict, static)>>] :
        d \in ClassDocs, fd \in FunctionDocs,
        inDict \in BOOLEAN, static \in BOOLEAN}

ClassInit ==
    /\ UnitInit
    /\ call \in {[cls |-> c, options |-> [collect_private_methods |-> p]] :
                    c \in ClassesC, p \in BOOLEAN}

CallCollectClassInfo ==
    /\ pc = "unit"
    /\ ret' = [fn |-> "_collect_class_info",
               value |-> CollectClassInfo(call.cls, call.options)]
    /\ pc' = "returned"
    /\ UNCHANGED unitFrame

ClassNext == CallCollectClassInfo

SpecClass == ClassInit /\ [][ClassNext]_vars

---------------------------------------------------------------------------
(* Modules: _collect_module_info of one module m                           *)

\* a class whose name begins with "_", with and without :exclude:
ClassesHidden ==
    {[name |-> "_Hidden", doc |-> d, members |-> MembersOfB] :
        d \in {None, Some(<<"Hidden", ".">>),
               Some(<<"Hidden", ".", "\n">> \o ExcludeLine)}}

\* the modules of the whole run, and those that have the class _Hidden
\* besides: getmembers yields A, _Hidden, _g, f, skip in this order
UnitModules ==
    Modules("m")
    \cup {[name |-> "m", doc |-> d,
           members |-> <<ClassMember(a, "m"), ClassMember(h, "m")>> \o f] :
             d \in ModuleDocs, a \in ClassesA, h \in ClassesHidden,
             f \in FunctionParts("m")}

ModuleInit ==
    /\ UnitInit
    /\ call \in {[mod |-> m, options |-> [collect_private_methods |-> p]] :
                    m \in UnitModules, p \in BOOLEAN}

CallCollectModuleInfo ==
    /\ pc = "unit"
    /\ ret' = [fn |-> "_collect_module_info",
               value |-> CollectModuleInfo(call.mod, call.options)]
    /\ pc' = "returned"
    /\ UNCHANGED unitFrame

ModuleNext == CallCollectModuleInfo

SpecModule == ModuleInit /\ [][ModuleNext]_vars

---------------------------------------------------------------------------
(* The directive parsers on their own: _check_exclusion, _get_exclusion    *)
(* and _get_inclusion of one docstring                                     *)

ExclusionAlphabet == {":", " ", "\n", "exclude", "x"}

\* the texts of at most n lexemes over ExclusionAlphabet
RECURSIVE ExclusionTexts(_)
ExclusionTexts(n) ==
    IF n = 0 THEN {<<>>}
    ELSE ExclusionTexts(n - 1)
         \cup {Append(t, c) :
                   t \in {u \in ExclusionTexts(n - 1) : Len(u) = n - 1},
                   c \in ExclusionAlphabet}

\* the name lists of exactly n names, a comma between two names, with
\* white space or none beside it
RECURSIVE NameLists(_)
NameLists(n) ==
    IF n = 1 THEN {<<a>> : a \in {"f", "g"}}
    ELSE {l \o s \o <<a>> : l \in NameLists(n - 1),
                            s \in {<<",">>, <<",", " ">>, <<" ", ",">>},
                            a \in {"f", "g"}}

\* lists that are not names with commas between them
MalformedLists ==
    {<<"f", " ", "g">>, <<"f", ",">>, <<",", "f">>, <<"f", ",", ",", "g">>,
     <<"f", ".", "g">>}

\* what may stand between the two colons of a directive, after its word
ListParts ==
    {<<>>, <<" ">>}
    \cup {g \o l \o h : g \in {<<" ">>, <<"\n">>},
                        l \in MalformedLists
                              \cup UNION {NameLists(n) : n \in 1..MaxNames},
                        h \in {<<>>, <<" ">>}}

\* a directive of the word as the docstring of the module writes it,
\* :word names:, and with the names after the second colon, :word: names
MethodsDirectives(word) ==
    {<<":", word>> \o p \o <<":">> : p \in ListParts}
    \cup {<<":", " ", word, ":">>}
    \cup {<<":", word, ":", " ">> \o l :
              l \in MalformedLists \cup UNION {NameLists(n) : n \in 1..MaxNames}}

\* docstrings with one directive of exclude_methods or include_methods, or
\* one of each
MethodsTexts ==
    {b \o d \o e :
        b \in {<<>>, <<"Class", ".", "\n">>},
        d \in MethodsDirectives("exclude_methods")
              \cup MethodsDirectives("include_methods"),
        e \in {<<>>, <<"\n">>, <<"\n", "End", ".">>}}
    \cup {d \o <<"\n">> \o i \o <<"\n">> :
              d \in {<<":", "exclude_methods", ":">>,
                     <<":", "exclude_methods", " ", "f", ":">>,
                     <<":", "exclude_methods", ":", " ", "f">>},
              i \in {<<":", "include_methods", " ", "g", ":">>,
                     <<":", "include_methods", ":", " ", "g">>}}

ParseDocs ==
    {None}
    \cup {Some(t) : t \in {u \in ExclusionTexts(MaxExclusionLen) : WellLexed(u)}}
    \cup {Some(t) : t \in MethodsTexts}

ParseInit ==
    /\ UnitInit
    /\ call \in {[doc |-> d, exclusion |-> e] :
                    d \in ParseDocs, e \in {"exclude", "exclude_children"}}

CallCheckExclusion ==
    /\ pc = "unit"
    /\ ret' = [fn |-> "_check_exclusion",
               value |-> CheckExclusion(call.doc, call.exclusion)]
    /\ pc' = "returned"
    /\ UNCHANGED unitFrame

CallGetExclusion ==
    /\ pc = "unit"
    /\ ret' = [fn |-> "_get_exclusion", value |-> GetExclusion(call.doc)]
    /\ pc' = "returned"
    /\ UNCHANGED unitFrame

CallGetInclusion ==
    /\ pc = "unit"
    /\ ret' = [fn |-> "_get_inclusion", value |-> GetInclusion(call.doc)]
    /\ pc' = "returned"
    /\ UNCHANGED unitFrame

ParseNext == CallCheckExclusion \/ CallGetExclusion \/ CallGetInclusion

SpecParse == ParseInit /\ [][ParseNext]_vars

---------------------------------------------------------------------------
(* Properties.  What they share: how a fragment reads as one string, and   *)
(* what a docstring says when read as the documentation describes it.      *)

\* the Python string a fragment stands for
RECURSIVE Flat(_)
Flat(pieces) ==
    IF pieces = <<>> THEN "" ELSE Head(pieces) \o Flat(Tail(pieces))

\* the text has a line that, blanks aside, is :word: and that a line break
\* ends
StandaloneDirective(text, word) ==
    \E i \in 1..Len(text) :
        /\ text[i] = ":"
        /\ \E s \in 0..(i - 1) :
              /\ s = 0 \/ text[s] = "\n"
              /\ \A k \in (s + 1)..(i - 1) : text[k] \in Blank
        /\ \E j \in (i + 1)..Len(text) :
              /\ text[j] = word
              /\ \A k \in (i + 1)..(j - 1) : text[k] \in Blank
              /\ \E c \in (j + 1)..Len(text) :
                    /\ text[c] = ":"
                    /\ \A k \in (j + 1)..(c - 1) : text[k] \in Blank
                    /\ \E n \in (c + 1)..Len(text) :
                          /\ text[n] = "\n"
                          /\ \A k \in (c + 1)..(n - 1) : text[k] \in Blank

\* the names of the functions a collected class lists
MethodNames(data) ==
    {data.methods[i].name : i \in 1..Len(data.methods)}
    \cup {data.static_methods[i].name : i \in 1..Len(data.static_methods)}

\* the functions and methods the class itself defines
OwnFunctionNames(cls) ==
    {cls.members[i].name :
        i \in {j \in 1..Len(cls.members) :
                  /\ cls.members[j].is \in {"function", "method"}
                  /\ cls.members[j].inDict}}

---------------------------------------------------------------------------
(* C1.  A member named by the include_methods directive of its class is    *)
(* collected, whatever else would exclude it.                              *)

\* C1 as stated: once _collect_class_info has returned the dict of a class,
\* every function or method the class defines whose name is in the class's
\* include_methods set is in data['methods'] or data['static_methods'],
\* whatever the member's own :exclude:, the class's exclude_children and
\* exclude_methods and the collect_private_methods option.  The code does
\* not keep this: _collect_function_info returns None for a member whose
\* own docstring carries :exclude:, included or not.
C1_IncludedMemberIsCollected ==
    (pc = "returned" /\ ret.fn = "_collect_class_info" /\ ret.value # None)
        => \A name \in OwnFunctionNames(call.cls) :
               name \in GetInclusion(Some(StrippedDoc(call.cls)))
                   => name \in MethodNames(ret.value[1])

---------------------------------------------------------------------------
(* C3.  exclude_methods with no names excludes every method that           *)
(* include_methods does not name.                                          *)

\* the docstring has the line :exclude_methods: (no names)
BareExcludeMethods(text) ==
    \E i \in 1..(Len(text) - 2) :
        /\ text[i] = ":"
        /\ text[i + 1] = "exclude_methods"
        /\ text[i + 2] = ":"
        /\ i + 3 > Len(text) \/ text[i + 3] = "\n"

\* C3: once _collect_class_info has returned the dict of a class whose
\* docstring carries :exclude_methods: with no name list, every name in
\* data['methods'] and data['static_methods'] is in the class's
\* include_methods set.
C3_BareExcludeMethodsKeepsOnlyIncluded ==
    (/\ pc = "returned"
     /\ ret.fn = "_collect_class_info"
     /\ ret.value # None
     /\ BareExcludeMethods(call.cls.doc[1]))
        => MethodNames(ret.value[1])
               \subseteq GetInclusion(Some(StrippedDoc(call.cls)))

\* C3 happens: a class with :exclude_methods: and :include_methods f:, no
\* exclude_children, private members allowed, was collected with f and
\* without _g
C3_Witness ==
    /\ pc = "returned"
    /\ ret.fn = "_collect_class_info"
    /\ ret.value # None
    /\ BareExcludeMethods(call.cls.doc[1])
    /\ ~CheckExclusion(Some(StrippedDoc(call.cls)), "exclude_children")
    /\ call.options.collect_private_methods
    /\ GetInclusion(Some(StrippedDoc(call.cls))) = {"f"}
    /\ MethodNames(ret.value[1]) = {"f"}

---------------------------------------------------------------------------
(* C6, C7.  The signature of a function                                    *)

\* the strings a parameter may show as: its name, its name with = and the
\* default's text bare or in quotes, or its name after * or **
ParameterShown(p) ==
    IF p.kind = "VAR_POSITIONAL" THEN {"*" \o p.name}
    ELSE IF p.kind = "VAR_KEYWORD" THEN {"**" \o p.name}
    ELSE IF p.default = None THEN {p.name}
    ELSE {p.name \o "=" \o p.default[1].text,
          p.name \o "=\"" \o p.default[1].text \o "\""}

\* the strings parameters[i..] may show as, joined by ", "
RECURSIVE ParametersShown(_, _)
ParametersShown(parameters, i) ==
    IF i > Len(parameters) THEN {""}
    ELSE IF i = Len(parameters) THEN ParameterShown(parameters[i])
    ELSE {a \o ", " \o b : a \in ParameterShown(parameters[i]),
                           b \in ParametersShown(parameters, i + 1)}

SignaturesShown(func_name, parameters) ==
    {func_name \o "(" \o s \o ")" : s \in ParametersShown(parameters, 1)}

\* a, b=1, *args, **kwargs
ExampleParameters ==
    <<[name |-> "a", kind |-> "POSITIONAL_OR_KEYWORD", default |-> None],
      [name |-> "b", kind |-> "POSITIONAL_OR_KEYWORD",
       default |-> Some(IntValue("1"))],
      [name |-> "args", kind |-> "VAR_POSITIONAL", default |-> None],
      [name |-> "kwargs", kind |-> "VAR_KEYWORD", default |-> None]>>

\* what each formatter puts around the signature
SignatureOpening(ft, prefix, func_name) ==
    IF ft = "HtmlFormatter"
        THEN "<a id='" \o prefix \o "." \o func_name
             \o "' class='function_title'>"
    ELSE "  * #### <a name='" \o prefix \o "." \o func_name \o "'>"

\* C6: the signature general_function_signature returns, and the one each
\* formatter's function_signature shows, is the name, "(", the parameters
\* in declaration order joined by ", ", and ")": a parameter shows as its
\* name, as name=<default> when it has a default, as *name when variadic
\* positional and as **name when variadic keyword.  The parameters a,
\* b (default 1), *args, **kwargs of "name" give exactly
\* name(a, b=1, *args, **kwargs).
C6_SignatureShape ==
    pc = "returned"
        => /\ ret.fn = "general_function_signature"
                => /\ Flat(ret.value)
                          \in SignaturesShown(call.func_name, call.parameters)
                   /\ (call.func_name = "name"
                       /\ call.parameters = ExampleParameters)
                          => Flat(ret.value) = "name(a, b=1, *args, **kwargs)"
           /\ ret.fn = "function_signature"
                => \E s \in SignaturesShown(call.func_name, call.parameters) :
                       Flat(ret.value)
                           = SignatureOpening(ret.ft, call.prefix,
                                              call.func_name) \o s \o "</a>"

\* C6 happens: general_function_signature has returned
\* name(a, b=1, *args, **kwargs) for the example
C6_Witness ==
    /\ pc = "returned"
    /\ ret.fn = "general_function_signature"
    /\ call.func_name = "name"
    /\ call.parameters = ExampleParameters
    /\ Flat(ret.value) = "name(a, b=1, *args, **kwargs)"

\* the one string a parameter shows as when a default that is a str is
\* quoted and any other default is not
ParameterQuoted(p) ==
    IF p.kind = "VAR_POSITIONAL" THEN "*" \o p.name
    ELSE IF p.kind = "VAR_KEYWORD" THEN "**" \o p.name
    ELSE IF p.default = None THEN p.name
    ELSE IF p.default[1].type = "str"
        THEN p.name \o "=\"" \o p.default[1].text \o "\""
    ELSE p.name \o "=" \o p.default[1].text

RECURSIVE ParametersQuoted(_, _)
ParametersQuoted(parameters, i) ==
    IF i > Len(parameters) THEN ""
    ELSE IF i = Len(parameters) THEN ParameterQuoted(parameters[i])
    ELSE ParameterQuoted(parameters[i]) \o ", "
         \o ParametersQuoted(parameters, i + 1)

\* C7 as stated: in the signature, from general_function_signature and from
\* both formatters alike, a default that is a str (empty or not) shows in
\* quotes and any other default shows bare.  The code does not keep this:
\* only the empty str is shown as "", any other str is shown bare.
C7_TextualDefaultsQuoted ==
    pc = "returned"
        => LET s == call.func_name \o "("
                    \o ParametersQuoted(call.parameters, 1) \o ")"
           IN  /\ ret.fn = "general_function_signature"
                    => Flat(ret.value) = s
               /\ ret.fn = "function_signature"
                    => Flat(ret.value)
                           = SignatureOpening(ret.ft, call.prefix,
                                              call.func_name) \o s \o "</a>"

---------------------------------------------------------------------------
(* C8.  A docstring without markers                                        *)

\* the text has a parameter marker or a return marker: a colon, white space
\* or none, and the word param or return
HasMarker(text) ==
    \E i \in 1..Len(text) :
        /\ text[i] = ":"
        /\ \E j \in (i + 1)..Len(text) :
              /\ text[j] \in {"param", "return"}
              /\ \A k \in (i + 1)..(j - 1) : text[k] \in Space

\* the text without the white space at its two ends
Trimmed(text) ==
    LET inked == {i \in 1..Len(text) : text[i] \notin Space}
    IN  IF inked = {} THEN <<>>
        ELSE SubSeq(text,
                    CHOOSE a \in inked : \A i \in inked : a <= i,
                    CHOOSE b \in inked : \A i \in inked : b >= i)

\* the docstring of the call, None read as the empty text
DocText == IF call.func.doc # None THEN call.func.doc[1] ELSE <<>>

\* C8: for a docstring with no parameter marker and no return marker,
\* _analyze_function_docs returns the one entry FUNCTION, the trimmed text,
\* and _collect_function_info a dict whose doc is the trimmed text, whose
\* return is empty and whose parameters have no doc.
C8_NoMarkerAllDescription ==
    (pc = "returned" /\ ~HasMarker(DocText))
        => /\ ret.fn = "_analyze_function_docs"
                => /\ DOMAIN ret.value = {<<"FUNCTION">>}
                   /\ ret.value[<<"FUNCTION">>] = Trimmed(DocText)
           /\ ret.fn = "_collect_function_info"
                => /\ ret.value # None
                   /\ ret.value[1].doc = Trimmed(DocText)
                   /\ ret.value[1].return = <<>>
                   /\ \A i \in 1..Len(ret.value[1].parameters) :
                          ret.value[1].parameters[i].doc = None

\* C8 happens: _collect_function_info has returned for a docstring of
\* MaxDocLen lexemes that has a colon but no marker and white space at both
\* ends, and the doc it returned is shorter than the docstring
C8_Witness ==
    /\ pc = "returned"
    /\ ret.fn = "_collect_function_info"
    /\ ~HasMarker(DocText)
    /\ Len(DocText) >= 4
    /\ DocText[1] \in Space
    /\ DocText[Len(DocText)] \in Space
    /\ Contains(DocText, ":")
    /\ ret.value # None
    /\ ret.value[1].doc # <<>>
    /\ Len(ret.value[1].doc) < Len(DocText)

---------------------------------------------------------------------------
(* Properties of the whole run *)

\* export() has built the list out of a module
Rendering == pc \in {"render", "done", "raised"} /\ out # <<>>

\* the item of collected_data the list out is of: the one the loop raised
\* at, or the one before the next
RenderedItem == collected_data[IF pc = "raised" THEN idx ELSE idx - 1]

\* the indices of the items of o that one of the hooks made
Made(o, hooks) == {i \in 1..Len(o) : o[i].hook \in hooks}

\* what the items of o that the hooks made are about, in their order
RECURSIVE Refs(_, _)
Refs(o, hooks) ==
    IF o = <<>> THEN <<>>
    ELSE (IF Head(o).hook \in hooks THEN << Head(o).ref >> ELSE <<>>)
         \o Refs(Tail(o), hooks)

TocHooks == {"table_of_contents_function", "table_of_contents_class",
             "table_of_contents_constant"}

BodyHooks == {"function_signature", "class_title", "class_constant"}

\* the pieces of a fragment
Pieces(text) == {text[i] : i \in 1..Len(text)}

\* the files of the batch that import
Loaded == {i \in 1..Len(file_paths) : file_paths[i].load = "ok"}

\* the docstring of a module or class, None read as the empty text
TextOf(doc) == IF doc # None THEN doc[1] ELSE <<>>

---------------------------------------------------------------------------
(* C2.  The export of a module with a function f(x), as markdown with a    *)
(* table of contents                                                       *)

\* the functions of a collected module that have a documented parameter
\* and return text
DocumentedFunctions(mod) ==
    {k \in 1..Len(mod.functions) :
        /\ mod.functions[k].return # <<>>
        /\ \E p \in 1..Len(mod.functions[k].parameters) :
              /\ mod.functions[k].parameters[p].doc # None
              /\ mod.functions[k].parameters[p].doc[1] # <<>>}

\* the documented parameters of a collected function
DocumentedParameters(func) ==
    {p \in 1..Len(func.parameters) :
        /\ func.parameters[p].name \notin {"self", "cls"}
        /\ func.parameters[p].doc # None
        /\ func.parameters[p].doc[1] # <<>>}

\* the lines of a fragment: the strings between its line breaks
RECURSIVE Lines(_, _)
Lines(text, line) ==
    IF text = <<>> THEN {line}
    ELSE IF Head(text) = "\n" THEN {line} \cup Lines(Tail(text), "")
    ELSE Lines(Tail(text), line \o Head(text))

\* C2 as stated: when export() has built, as markdown and with the table of
\* contents, the list out of a collected module m that has a function f
\* with documented parameters and return text, it has not raised, and out
\* has a contents line that refers to m.f and after it the signature line
\* of f, the description, the lines of the documented parameters and the
\* return line; once export() has ended the document of m has been
\* written.  The code does not keep this: _format_functions is handed the
\* module's name where it reads cls['name'], and raises TypeError.
C2_MarkdownExportOfFunction ==
    (/\ Rendering
     /\ options.output_format = MARK_DOWN
     /\ options.table_of_contents
     /\ DocumentedFunctions(RenderedItem.value) # {})
        => /\ pc # "raised"
           /\ \A k \in DocumentedFunctions(RenderedItem.value) :
                 LET m == RenderedItem.value
                     f == m.functions[k]
                 IN  \E c \in Made(out, {"table_of_contents_function"}) :
                     \E s \in Made(out, {"function_signature"}) :
                         /\ c < s
                         /\ Flat(out[c].text)
                                = "  * [{bq}" \o m.name \o "." \o f.name
                                  \o "(){bq}](#" \o m.name \o "." \o f.name
                                  \o ")"
                         /\ Flat(out[s].text)
                                = "  * #### <a name='" \o m.name \o "."
                                  \o f.name \o "'>"
                                  \o Flat(GeneralFunctionSignature(f.name,
                                              f.parameters))
                                  \o "</a>"
                         /\ out[s + 2].hook = "function_doc"
                         /\ Flat(out[s + 2].text) = "    > " \o Flat(f.doc)
                         /\ out[s + 3].hook = "function_parameters"
                         /\ \A p \in DocumentedParameters(f) :
                               \E l \in Lines(out[s + 3].text, "") :
                                   l = "    * {bq}" \o f.parameters[p].name
                                       \o "{bq}: "
                                       \o Flat(f.parameters[p].doc[1])
                         /\ out[s + 4].hook = "function_return_parameter"
                         /\ Flat(out[s + 4].text)
                                = "    * {bq}return:{bq} " \o Flat(f.return)
           /\ pc = "done"
                 => \E w \in 1..Len(files) :
                        /\ files[w].key.stem = RenderedItem.key.stem
                        /\ files[w].key.ext = ".md"

---------------------------------------------------------------------------
(* C4.  A class whose docstring carries :exclude:                          *)

\* the classes of the file file_paths[i] that are the module's own and
\* whose docstring has the line :exclude:
ExcludedClasses(i) ==
    {file_paths[i].mod.members[j].cls[1] :
        j \in {k \in 1..Len(file_paths[i].mod.members) :
                 /\ file_paths[i].mod.members[k].is = "class"
                 /\ file_paths[i].mod.members[k].module
                        = file_paths[i].mod.name
                 /\ StandaloneDirective(
                        TextOf(file_paths[i].mod.members[k].cls[1].doc),
                        "exclude")}}

\* the names of the members of a class
MemberNames(cls) == {cls.members[j].name : j \in 1..Len(cls.members)}

\* C4: a class of a module whose docstring carries :exclude: is not in the
\* classes collected for the module; when export() builds the list out of
\* the module no item of it is about the class, a constant of the class or
\* a method of the class, and neither the name of the class nor the name
\* of one of its members is part of an item or of the document.
C4_ExcludedClassIsAbsent ==
    \A i \in Loaded :
        \A cls \in ExcludedClasses(i) :
            /\ \A d \in 1..Len(collected_data) :
                  collected_data[d].key = file_paths[i].path
                      => \A c \in 1..Len(collected_data[d].value.classes) :
                             collected_data[d].value.classes[c].name
                                 # cls.name
            /\ (Rendering /\ RenderedItem.key = file_paths[i].path)
                  => \A e \in 1..Len(out) :
                         /\ ~(out[e].ref.kind = "class"
                              /\ out[e].ref.name = cls.name)
                         /\ out[e].ref.prefix # cls.name
                         /\ Pieces(out[e].text)
                                \cap ({cls.name} \cup MemberNames(cls)) = {}
            /\ \A d \in 1..Len(formatted_data) :
                  formatted_data[d].key = file_paths[i].path
                      => Pieces(formatted_data[d].value)
                             \cap ({cls.name} \cup MemberNames(cls)) = {}

\* C4 happens: export() has ended for a module with a class A that is
\* shown and a class B with :exclude:, and the document has A in it
C4_Witness ==
    /\ pc = "done"
    /\ options.table_of_contents
    /\ \E i \in Loaded :
          /\ \E cls \in ExcludedClasses(i) :
                cls.name = "B" /\ MemberNames(cls) # {}
          /\ \E d \in 1..Len(formatted_data) :
                /\ formatted_data[d].key = file_paths[i].path
                /\ "A" \in Pieces(formatted_data[d].value)
                /\ "m" \in Pieces(formatted_data[d].value)
          /\ \E w \in 1..Len(files) :
                /\ files[w].key.stem = file_paths[i].path.stem
                /\ "A" \in Pieces(files[w].value)

---------------------------------------------------------------------------
(* C5.  The table of contents and the body                                 *)

\* C5 as stated: when export() has built the list out of a module with the
\* table of contents, the functions, classes and constants the items of
\* the table of contents are about are, in their order, the ones the
\* signatures, class titles and constants of the body are about.  The code
\* does not keep this for a module that has functions: _format_functions
\* raises (C2) before the body has its first signature.
C5_ContentsMatchBody ==
    (Rendering /\ options.table_of_contents)
        => Refs(out, TocHooks) = Refs(out, BodyHooks)

---------------------------------------------------------------------------
(* C9.  A file that cannot be imported                                     *)

\* the import of file_paths[i] has been reported as failed
Reported(i) ==
    \E k \in 1..Len(console) :
        /\ console[k].print = "There was an error importing"
        /\ console[k].path = file_paths[i].path

\* the files of the batch that import and whose module docstring does not
\* exclude the module
Documentable ==
    {i \in Loaded : ~CheckExclusion(file_paths[i].mod.doc, "exclude")}

---------------------------------------------------------------------------
(* C10.  A module whose docstring carries :exclude:                        *)

\* the files of the batch that import and whose module docstring has the
\* line :exclude:
ExcludedModules ==
    {i \in Loaded : StandaloneDirective(TextOf(file_paths[i].mod.doc),
                                        "exclude")}

\* what collecting the files batch[i..] one after the other leaves in
\* self._collected_data, d being what it held before
RECURSIVE Collected(_, _, _, _)
Collected(batch, i, opts, d) ==
    IF i > Len(batch) THEN d
    ELSE LET f    == batch[i]
             data == CollectModuleInfo(
                         [name |-> f.mod.name, doc |-> f.mod.doc,
                          members |-> f.mod.members, file |-> f.path], opts)
         IN  Collected(batch, i + 1, opts,
                       IF data # None THEN DictSet(d, f.path, data[1])
                       ELSE d)

\* the batch without its excluded modules
RECURSIVE OtherModules(_)
OtherModules(i) ==
    IF i > Len(file_paths) THEN <<>>
    ELSE (IF i \in ExcludedModules THEN <<>> ELSE << file_paths[i] >>)
         \o OtherModules(i + 1)

\* the documents export() writes for the collected modules d
RECURSIVE Documents(_, _)
Documents(d, opts) ==
    IF d = <<>> THEN <<>>
    ELSE << [key |-> [dir |-> <<opts.output_directory,
                               opts.output_folder_name>>,
                      stem |-> Head(d).key.stem,
                      ext |-> FileExt(FormatterOf(opts.output_format))],
             value |-> FormattedString(
                           ExportModule(FormatterOf(opts.output_format),
                                        Head(d).value, opts,
                                        StyleSheet).out)] >>
         \o Documents(Tail(d), opts)

\* C10: a module whose docstring carries :exclude: is never a key of the
\* collected data, so none of its classes and functions is collected, and
\* it is never a key of the formatted data nor the name of a written
\* document; the other modules are collected as they are in a batch
\* without it, and once export() has ended their documents are the ones
\* such a batch gives.
C10_ExcludedModuleIsAbsent ==
    /\ \A i \in ExcludedModules :
          /\ file_paths[i].path \notin DictKeys(collected_data)
          /\ file_paths[i].path \notin DictKeys(formatted_data)
          /\ \A w \in 1..Len(files) :
                files[w].key.stem # file_paths[i].path.stem
    /\ pc \in {"overview", "export", "render", "done"}
          => collected_data = Collected(OtherModules(1), 1, options, <<>>)
    /\ pc = "done"
          => SelectSeq(files, LAMBDA w : w.key.ext # ".css")
                 = Documents(Collected(OtherModules(1), 1, options, <<>>),
                             options)

\* C10 happens: export() has ended for a batch of an excluded module and
\* another module, and the only document written is the other module's
C10_Witness ==
    /\ pc = "done"
    /\ Len(file_paths) = 2
    /\ ExcludedModules # {}
    /\ \E j \in Documentable \ ExcludedModules :
          /\ DictKeys(collected_data) = {file_paths[j].path}
          /\ {files[w].key.stem : w \in 1..Len(files)} \ {"style"}
                 = {file_paths[j].path.stem}

---------------------------------------------------------------------------
(* C11.  The links of the table of contents                                *)

\* the pieces a link of the table of contents opens with
LinkOpeners == {"<a href='#", "(){bq}](#", "{bq}](#"}

\* the pieces an anchor of the body opens with
AnchorOpeners == {"<a id='", "<h3 id='", "* #### <a name='",
                  "* ## <a name='", "* <a name='"}

\* the names that follow one of the openers in a fragment
Targets(text, openers) ==
    {text[i + 1] \o text[i + 2] \o text[i + 3] :
        i \in {j \in 1..(Len(text) - 3) : text[j] \in openers}}

\* the names of the classes of a collected module
ClassNames(mod) == {mod.classes[i].name : i \in 1..Len(mod.classes)}

\* C11 as stated: when export() has built the list out of a module with the
\* table of contents, every item of the table of contents links to one
\* name, module.name for a function of the module and for a class and
\* Class.name for a constant or method of a class, and exactly one item of
\* the body has an anchor of that name, the item of the same function,
\* class or constant.  The code does not keep this for a module that has
\* functions: _format_functions raises (C2) before the body has the anchor
\* of the first of them.
C11_ContentsLinksResolve ==
    (Rendering /\ options.table_of_contents)
        => \A c \in Made(out, TocHooks) :
               /\ out[c].ref.kind = "class"
                     => out[c].ref.prefix = RenderedItem.value.name
               /\ out[c].ref.kind = "constant"
                     => out[c].ref.prefix \in ClassNames(RenderedItem.value)
               /\ out[c].ref.kind = "function"
                     => out[c].ref.prefix
                            \in {RenderedItem.value.name}
                                \cup ClassNames(RenderedItem.value)
               /\ Targets(out[c].text, LinkOpeners)
                      = {out[c].ref.prefix \o "." \o out[c].ref.name}
               /\ \E b \in Made(out, BodyHooks) :
                     /\ out[b].ref = out[c].ref
                     /\ \A a \in Made(out, BodyHooks) :
                           Targets(out[a].text, AnchorOpeners)
                               = Targets(out[c].text, LinkOpeners)
                               <=> a = b

---------------------------------------------------------------------------
(* C12.  Which constants of a class are collected                          *)

\* the names of the constants a collected class lists
ConstantNames(data) == {data.constants[i].name : i \in 1..Len(data.constants)}

\* the names of the members of a class that are not callable
DataNames(cls) ==
    {cls.members[i].name :
        i \in {j \in 1..Len(cls.members) : cls.members[j].is = "data"}}

\* C12 as stated: once _collect_class_info has returned the dict of a
\* class, a member that is not callable is in data['constants'] exactly
\* when the docstring of the class has no :exclude_children: line and it is
\* not so that collect_private_methods is off and the name begins with "_";
\* exclude_methods and include_methods play no part.  The code does not
\* keep this: a name that begins with "_" is never a constant, whatever
\* collect_private_methods says.
C12_ConstantVisibility ==
    (pc = "returned" /\ ret.fn = "_collect_class_info" /\ ret.value # None)
        => \A name \in DataNames(call.cls) :
               name \in ConstantNames(ret.value[1])
                   <=> /\ ~StandaloneDirective(call.cls.doc[1],
                                               "exclude_children")
                       /\ ~(/\ ~call.options.collect_private_methods
                            /\ StartsWithUnderscore(name))
---------------------------------------------------------------------------
(* C13.  The classes and functions of a module whose names begin with "_"  *)

\* the classes and functions the module itself defines
OwnEntities(mod) ==
    {mod.members[i] :
        i \in {j \in 1..Len(mod.members) :
                  /\ mod.members[j].is \in {"class", "function"}
                  /\ mod.members[j].module = mod.name}}

\* the docstring of a class or function getmembers(mod) yielded
EntityDoc(e) == IF e.is = "class" THEN e.cls[1].doc ELSE e.func[1].doc

\* the names of the classes and functions a collected module lists
EntityNames(data) ==
    {data.classes[i].name : i \in 1..Len(data.classes)}
    \cup {data.functions[i].name : i \in 1..Len(data.functions)}

\* C13 as stated: once _collect_module_info has returned the dict of a
\* module, a class or function of the module whose name begins with "_"
\* is not in it when collect_private_methods is off, and is in it when
\* collect_private_methods is on and its own docstring has no :exclude:
\* line.  The code does not keep this: a class is collected whatever its
\* name.
C13_PrivateEntities ==
    (pc = "returned" /\ ret.fn = "_collect_module_info" /\ ret.value # None)
        => \A e \in OwnEntities(call.mod) :
               StartsWithUnderscore(e.name)
                   => /\ ~call.options.collect_private_methods
                           => e.name \notin EntityNames(ret.value[1])
                      /\ (/\ call.options.collect_private_methods
                          /\ \/ EntityDoc(e) = None
                             \/ ~StandaloneDirective(EntityDoc(e)[1], "exclude"))
                           => e.name \in EntityNames(ret.value[1])
---------------------------------------------------------------------------
(* C14.  exclude_methods with a list of names.  The directives are read   *)
(* as the docstring of the module writes them: the names before the        *)
(* second colon.                                                           *)

\* the lexemes a..b of a text without the white space
Unspaced(text, a, b) == SelectSeq(SubSeq(text, a, b), LAMBDA x : x \notin Space)

\* names with a comma between every two of them
CommaList(s) ==
    /\ Len(s) % 2 = 1
    /\ \A k \in 1..Len(s) : IF k % 2 = 1 THEN IsWord(s[k]) ELSE s[k] = ","

\* a text without a colon that is nothing, white space aside, or a list
\* of names
NamesOrNothing(text, a, b) ==
    /\ \A k \in a..b : text[k] # ":"
    /\ Unspaced(text, a, b) = <<>> \/ CommaList(Unspaced(text, a, b))

\* the directives of a word as the docstring of the module writes them,
\* :word: and :word names:, white space allowed after the first colon and
\* around the names: the positions of the first colon, the word and the
\* second colon
Directives(text, word) ==
    {d \in (1..Len(text)) \X (1..Len(text)) \X (1..Len(text)) :
        /\ d[1] < d[2] /\ d[2] < d[3]
        /\ text[d[1]] = ":"
        /\ \A k \in (d[1] + 1)..(d[2] - 1) : text[k] \in Space
        /\ text[d[2]] = word
        /\ text[d[3]] = ":"
        /\ NamesOrNothing(text, d[2] + 1, d[3] - 1)}

\* the first of them
FirstDirective(text, word) ==
    CHOOSE d \in Directives(text, word) :
        \A e \in Directives(text, word) : d[1] <= e[1]

\* the names between the word and the second colon
DirectiveNames(text, d) ==
    {text[k] : k \in {j \in (d[2] + 1)..(d[3] - 1) : IsWord(text[j])}}

\* the names the directives of a word list
ListedNames(text, word) ==
    UNION {DirectiveNames(text, d) : d \in Directives(text, word)}

\* the class with the word of its docstring replaced by a word that is no
\* directive
WithoutDirective(cls, word) ==
    [cls EXCEPT !.doc = Some([i \in 1..Len(cls.doc[1]) |->
                                 IF cls.doc[1][i] = word THEN "note"
                                 ELSE cls.doc[1][i]])]

\* the docstring of the function of the class that has the name
DocOfMethod(cls, name) ==
    cls.members[CHOOSE i \in 1..Len(cls.members) :
                    /\ cls.members[i].name = name
                    /\ cls.members[i].func # None].func[1].doc

\* another rule than exclude_methods excludes the function: its own
\* :exclude:, or, for a name include_methods does not list, the
\* :exclude_children: of the class or a name that begins with "_" while
\* collect_private_methods is off
OtherwiseExcluded(cls, opts, name) ==
    \/ /\ DocOfMethod(cls, name) # None
       /\ StandaloneDirective(DocOfMethod(cls, name)[1], "exclude")
    \/ /\ name \notin ListedNames(cls.doc[1], "include_methods")
       /\ \/ StandaloneDirective(cls.doc[1], "exclude_children")
          \/ ~opts.collect_private_methods /\ StartsWithUnderscore(name)

---------------------------------------------------------------------------
(* C15.  _check_exclusion                                                  *)

\* the text has :word:, blanks or none after each colon and after the
\* word, and then a line break, whatever stands before it on its line
DirectiveBeforeBreak(text, word) ==
    \E i \in 1..Len(text) :
        /\ text[i] = ":"
        /\ \E j \in (i + 1)..Len(text) :
              /\ text[j] = word
              /\ \A k \in (i + 1)..(j - 1) : text[k] \in Blank
              /\ \E c \in (j + 1)..Len(text) :
                    /\ text[c] = ":"
                    /\ \A k \in (j + 1)..(c - 1) : text[k] \in Blank
                    /\ \E n \in (c + 1)..Len(text) :
                          /\ text[n] = "\n"
                          /\ \A k \in (c + 1)..(n - 1) : text[k] \in Blank

\* C15 as the documentation states it: _check_exclusion returns True
\* exactly when the text has a line that, white space aside, is :level:
\* and that a line break ends, and False for a directive that shares its
\* line with other text, for another level and for a missing text
C15_ExclusionIffStandaloneLine ==
    (pc = "returned" /\ ret.fn = "_check_exclusion")
        => ret.value = (/\ call.doc # None
                        /\ StandaloneDirective(call.doc[1], call.exclusion))

\* C15 as the code has it: _check_exclusion returns True exactly when the
\* text has :level: (blanks allowed after each colon and after the word)
\* with only blanks between it and the next line break, whatever precedes
\* it on the line; False when text follows it on the line, when no line
\* break follows, when the directive is absent or of another level, and
\* when the text is None or empty
C15_ExclusionIffDirectiveBeforeBreak ==
    (pc = "returned" /\ ret.fn = "_check_exclusion")
        => ret.value = (/\ call.doc # None
                        /\ DirectiveBeforeBreak(call.doc[1], call.exclusion))

\* C15 happens: _check_exclusion has returned True for x:exclude: and a
\* line break, the directive sharing its line with the text before it
C15_Witness ==
    /\ pc = "returned"
    /\ ret.fn = "_check_exclusion"
    /\ call.exclusion = "exclude"
    /\ call.doc = Some(<<"x", ":", "exclude", ":", "\n">>)
    /\ ~StandaloneDirective(call.doc[1], call.exclusion)
    /\ ret.value = TRUE
---------------------------------------------------------------------------
(* C16, C17.  _get_exclusion and _get_inclusion                            *)

\* the end of the line position c is on
LineEnd(text, c) ==
    IF \E n \in c..Len(text) : text[n] = "\n"
        THEN (CHOOSE n \in c..Len(text) :
                 text[n] = "\n" /\ \A k \in c..(n - 1) : text[k] # "\n") - 1
    ELSE Len(text)

\* the directives of a word with the names after the second colon,
\* :word: names, the names well formed or none: the position of the second
\* colon
DirectivesBeforeNames(text, word) ==
    {c \in 1..Len(text) :
        /\ c >= 3
        /\ text[c] = ":"
        /\ text[c - 1] = word
        /\ text[c - 2] = ":"
        /\ NamesOrNothing(text, c + 1, LineEnd(text, c))}

\* the names after the second colon, up to the end of the line
NamesAfter(text, c) ==
    {text[k] : k \in {j \in (c + 1)..LineEnd(text, c) : IsWord(text[j])}}

\* the text, None read as the empty text
DocOfCall == IF call.doc # None THEN call.doc[1] ELSE <<>>

\* C16 as the documentation states it: _get_exclusion returns False for a
\* text without the word exclude_methods, and for a text with
\* :exclude_methods: on one of its lines True if no names follow it on the
\* line and else the set of the names that follow it
C16_ExclusionOfNamesAfterColon ==
    (pc = "returned" /\ ret.fn = "_get_exclusion")
        => /\ ~Contains(DocOfCall, "exclude_methods") => ret.value = ExcludeNone
           /\ \A c \in DirectivesBeforeNames(DocOfCall, "exclude_methods") :
                  ret.value = IF NamesAfter(DocOfCall, c) = {} THEN ExcludeAll
                              ELSE ExcludeSet(NamesAfter(DocOfCall, c))

\* C16 as the code has it: _get_exclusion returns False exactly when the
\* text has no directive :exclude_methods: or :exclude_methods names:
\* (the names, separated by commas, before the second colon), True exactly
\* when the first such directive has no names, and else the set of the
\* names of the first such directive, white space around them dropped;
\* names that follow the second colon are not read
C16_ExclusionOfNamesBeforeColon ==
    (pc = "returned" /\ ret.fn = "_get_exclusion")
        => ret.value
               = IF Directives(DocOfCall, "exclude_methods") = {}
                     THEN ExcludeNone
                 ELSE IF DirectiveNames(DocOfCall,
                             FirstDirective(DocOfCall, "exclude_methods")) = {}
                     THEN ExcludeAll
                 ELSE ExcludeSet(DirectiveNames(DocOfCall,
                          FirstDirective(DocOfCall, "exclude_methods")))

\* C16 happens: _get_exclusion has returned the set of f and g for
\* :exclude_methods f, g: and True for :exclude_methods: f
C16_Witness ==
    /\ pc = "returned"
    /\ ret.fn = "_get_exclusion"
    /\ \/ /\ call.doc = Some(<<":", "exclude_methods", " ", "f", ",", " ",
                               "g", ":">>)
          /\ ret.value = ExcludeSet({"f", "g"})
       \/ /\ call.doc = Some(<<":", "exclude_methods", ":", " ", "f">>)
          /\ ret.value = ExcludeAll

\* C17 as the documentation states it: _get_inclusion returns the empty
\* set for a text without the word include_methods and for None, and for a
\* text with :include_methods: on one of its lines the set of the names
\* that follow it on the line
C17_InclusionOfNamesAfterColon ==
    (pc = "returned" /\ ret.fn = "_get_inclusion")
        => /\ ~Contains(DocOfCall, "include_methods") => ret.value = {}
           /\ \A c \in DirectivesBeforeNames(DocOfCall, "include_methods") :
                  NamesAfter(DocOfCall, c) # {}
                      => ret.value = NamesAfter(DocOfCall, c)

\* C17 as the code has it: _get_inclusion returns the set of the names of
\* the first directive :include_methods names: that has names (separated
\* by commas, before the second colon), and the empty set when there is
\* none, the text being None or empty included; names that follow the
\* second colon are not read
C17_InclusionOfNamesBeforeColon ==
    (pc = "returned" /\ ret.fn = "_get_inclusion")
        => ret.value
               = UNION {DirectiveNames(DocOfCall, d) :
                     d \in {e \in Directives(DocOfCall, "include_methods") :
                               /\ DirectiveNames(DocOfCall, e) # {}
                               /\ \A x \in Directives(DocOfCall, "include_methods") :
                                      DirectiveNames(DocOfCall, x) # {}
                                          => e[1] <= x[1]}}

\* C17 happens: _get_inclusion has returned the set of f and g for
\* :include_methods f ,g: and the empty set for :include_methods: f
C17_Witness ==
    /\ pc = "returned"
    /\ ret.fn = "_get_inclusion"
    /\ \/ /\ call.doc = Some(<<":", "include_methods", " ", "f", " ", ",",
                               "g", ":">>)
          /\ ret.value = {"f", "g"}
       \/ /\ call.doc = Some(<<":", "include_methods", ":", " ", "f">>)
          /\ ret.value = {}
---------------------------------------------------------------------------
(* C18.  A list of names that is not one                                   *)

\* the text has :word ...: with something between the word and the second
\* colon that is neither white space nor names with commas between them
Malformed(text, word) ==
    \E i, j, c \in 1..Len(text) :
        /\ i < j /\ j < c
        /\ text[i] = ":"
        /\ \A k \in (i + 1)..(j - 1) : text[k] \in Space
        /\ text[j] = word
        /\ text[c] = ":"
        /\ \A k \in (j + 1)..(c - 1) : text[k] # ":"
        /\ ~NamesOrNothing(text, j + 1, c - 1)

\* the names of the functions _collect_class_info lists for a class
MethodsOf(cls, opts) == MethodNames(CollectClassInfo(cls, opts)[1])

\* C18: _collect_class_info of a class whose docstring has :exclude_methods
\* ...: or :include_methods ...: with a list that is not names with commas
\* between them returns, None only if the class has :exclude:.  With such
\* an exclude_methods _get_exclusion gives False for the docstring, the
\* functions listed are those listed without the directive, and every
\* function the class defines that no other rule excludes is among them;
\* with such an include_methods _get_inclusion gives the empty set and the
\* functions listed are those listed without the directive.
C18_MalformedListIsNoDirective ==
    (pc = "returned" /\ ret.fn = "_collect_class_info")
        => /\ (\/ Malformed(call.cls.doc[1], "exclude_methods")
               \/ Malformed(call.cls.doc[1], "include_methods"))
                 => (ret.value = None
                        <=> StandaloneDirective(call.cls.doc[1], "exclude"))
           /\ (ret.value # None /\ Malformed(call.cls.doc[1], "exclude_methods"))
                 => /\ GetExclusion(Some(StrippedDoc(call.cls))) = ExcludeNone
                    /\ MethodNames(ret.value[1])
                           = MethodsOf(WithoutDirective(call.cls,
                                                        "exclude_methods"),
                                       call.options)
                    /\ \A name \in OwnFunctionNames(call.cls) :
                           ~OtherwiseExcluded(call.cls, call.options, name)
                               => name \in MethodNames(ret.value[1])
           /\ (ret.value # None /\ Malformed(call.cls.doc[1], "include_methods"))
                 => /\ GetInclusion(Some(StrippedDoc(call.cls))) = {}
                    /\ MethodNames(ret.value[1])
                           = MethodsOf(WithoutDirective(call.cls,
                                                        "include_methods"),
                                       call.options)

\* C18 happens: a class with :exclude_methods f _g: and
\* :include_methods f _g:, no other directive, private members not
\* allowed, was collected with the f it defines and without _g
C18_Witness ==
    /\ pc = "returned"
    /\ ret.fn = "_collect_class_info"
    /\ ret.value # None
    /\ Malformed(call.cls.doc[1], "exclude_methods")
    /\ Malformed(call.cls.doc[1], "include_methods")
    /\ ~StandaloneDirective(call.cls.doc[1], "exclude_children")
    /\ ~call.options.collect_private_methods
    /\ "f" \in OwnFunctionNames(call.cls)
    /\ MethodNames(ret.value[1]) = {"f"}
---------------------------------------------------------------------------
(* C19.  A module, class or function without a docstring                   *)

\* the dict of the class or function of that name in a collected list
Named(list, name) == list[CHOOSE i \in 1..Len(list) : list[i].name = name]

Names(list) == {list[i].name : i \in 1..Len(list)}

\* the functions of its own a class lists when none of its directives is
\* in effect: those without :exclude: whose name does not begin with "_"
\* unless collect_private_methods is on
UndirectedMethods(cls, opts) ==
    {name \in OwnFunctionNames(cls) :
        /\ opts.collect_private_methods \/ ~StartsWithUnderscore(name)
        /\ \/ DocOfMethod(cls, name) = None
           \/ ~StandaloneDirective(DocOfMethod(cls, name)[1], "exclude")}

\* C19: _collect_module_info returns (the call has a value).  A module
\* whose __doc__ is None is collected, with the doc "".  In a collected
\* module a class of the module whose __doc__ is None has no directive
\* (no exclude, no exclude_children, _get_exclusion False, _get_inclusion
\* empty) and is listed with the doc "", with every constant whose name does not begin with "_" and
\* with the functions it lists when no directive is in effect; a function
\* of the module whose __doc__ is None, the private ones if
\* collect_private_methods is on, is listed with the doc "", the return ""
\* and no doc for any parameter.
C19_MissingDocstring ==
    (pc = "returned" /\ ret.fn = "_collect_module_info")
        => /\ call.mod.doc = None
                => ret.value # None /\ ret.value[1].doc = <<>>
           /\ ret.value # None
                => \A e \in OwnEntities(call.mod) :
                       /\ (e.is = "class" /\ EntityDoc(e) = None)
                            => /\ ~CheckExclusion(EntityDoc(e), "exclude")
                               /\ ~CheckExclusion(Some(StrippedDoc(e.cls[1])),
                                                  "exclude_children")
                               /\ GetExclusion(Some(StrippedDoc(e.cls[1])))
                                      = ExcludeNone
                               /\ GetInclusion(Some(StrippedDoc(e.cls[1]))) = {}
                               /\ e.name \in Names(ret.value[1].classes)
                               /\ Named(ret.value[1].classes, e.name).doc = <<>>
                               /\ DataNames(e.cls[1]) \ UnderscoreNames
                                      \subseteq ConstantNames(
                                          Named(ret.value[1].classes, e.name))
                               /\ MethodNames(Named(ret.value[1].classes, e.name))
                                      = UndirectedMethods(e.cls[1], call.options)
                       /\ (/\ e.is = "function"
                           /\ EntityDoc(e) = None
                           /\ \/ call.options.collect_private_methods
                              \/ ~StartsWithUnderscore(e.name))
                            => /\ e.name \in Names(ret.value[1].functions)
                               /\ Named(ret.value[1].functions, e.name).doc = <<>>
                               /\ Named(ret.value[1].functions, e.name).return = <<>>
                               /\ \A p \in 1..Len(e.func[1].params) :
                                      Named(ret.value[1].functions,
                                            e.name).parameters[p].doc = None

\* C19 happens: a module without docstring that has a class A without
\* docstring and a function _g without docstring was collected, private
\* members allowed, with A and _g
C19_Witness ==
    /\ pc = "returned"
    /\ ret.fn = "_collect_module_info"
    /\ call.mod.doc = None
    /\ call.options.collect_private_methods
    /\ \E e \in OwnEntities(call.mod) :
           e.is = "class" /\ e.name = "A" /\ EntityDoc(e) = None
    /\ \E e \in OwnEntities(call.mod) :
           e.is = "function" /\ e.name = "_g" /\ EntityDoc(e) = None
    /\ ret.value # None
    /\ ret.value[1].doc = <<>>
    /\ Named(ret.value[1].classes, "A").doc = <<>>
    /\ MethodNames(Named(ret.value[1].classes, "A")) = {"count", "s"}
    /\ Named(ret.value[1].functions, "_g").doc = <<>>
---------------------------------------------------------------------------
(* C20.  export() called twice                                             *)

\* an export has ended
Exported == pc \in {"done", "raised"} /\ out # <<>>

---------------------------------------------------------------------------
(* C21.  Collection ends before rendering begins                           *)

\* a hook of the formatter has been called: export() is in or past its
\* loop, or the list out or formatted_data holds something
HookCalled ==
    pc \in {"render", "done"} \/ out # <<>> \/ formatted_data # <<>>

\* C21: once a hook of the formatter has been called, the loops of
\* _import_modules and __init__ have ended: every file of the batch has
\* been imported, every imported module that _collect_module_info gives a
\* dict for has that dict, whole, under its path in self._collected_data,
\* and self._collected_data holds nothing else; what it holds is what
\* collecting the batch gives, so no hook has collected or changed
\* anything.
C21_CollectedBeforeRendered ==
    HookCalled
        => /\ pc \notin {"import", "collect", "overview", "export"}
           /\ Len(modules) = Len(file_paths)
           /\ \A i \in 1..Len(modules) :
                  CollectModuleInfo(modules[i], options) # None
                      => /\ modules[i].file \in DictKeys(collected_data)
                         /\ DictGet(collected_data, modules[i].file)
                                = CollectModuleInfo(modules[i], options)[1]
           /\ DictKeys(collected_data)
                  = {modules[i].file :
                        i \in {j \in 1..Len(modules) :
                                  CollectModuleInfo(modules[j], options) # None}}
           /\ collected_data = Collected(file_paths, 1, options, <<>>)

\* C21 happens: export() is in its loop, the first of two collected
\* modules rendered and the second, collected with a class, not yet
C21_Witness ==
    /\ pc = "render"
    /\ idx = 2
    /\ out # <<>>
    /\ Len(collected_data) = 2
    /\ Len(formatted_data) = 1
    /\ collected_data[2].value.classes # <<>>
---------------------------------------------------------------------------
(* C22.  The description and the return text of a docstring, whatever the  *)
(* names of its parameter entries                                          *)

\* a parameter marker or a return marker begins at i: a colon, white space
\* or none, and then the word param and a blank or the word return and a
\* colon
MarkerBegins(text, i) ==
    /\ i \in 1..Len(text)
    /\ text[i] = ":"
    /\ \E j \in (i + 1)..(Len(text) - 1) :
          /\ \A k \in (i + 1)..(j - 1) : text[k] \in Space
          /\ \/ text[j] = "param" /\ text[j + 1] = " "
             \/ text[j] = "return" /\ text[j + 1] = ":"

\* the text that precedes the first marker, all of it when there is none
BeforeFirstMarker(text) ==
    LET begins == {i \in 1..Len(text) : MarkerBegins(text, i)}
    IN  IF begins = {} THEN text
        ELSE SubSeq(text, 1,
                    (CHOOSE a \in begins : \A i \in begins : a <= i) - 1)

\* what the dict of _analyze_function_docs says under a reserved key,
\* nothing when the key is not there
Said(data, key) == IF <<key>> \in DOMAIN data THEN data[<<key>>] ELSE <<>>

\* the docstring with another name wherever FUNCTION or RETURN is written
OtherwiseNamed(text) ==
    [i \in 1..Len(text) |->
        IF text[i] \in {"FUNCTION", "RETURN"} THEN "p" ELSE text[i]]

\* a parameter entry of the docstring is named FUNCTION or RETURN
NamesReserved(text) == \E i \in 1..Len(text) : text[i] \in {"FUNCTION", "RETURN"}

\* C22 as stated: for every docstring, the description
\* _analyze_function_docs returns, and the doc _collect_function_info
\* returns, is the trimmed text before the first parameter or return
\* marker, and the return text is the one the docstring has when its
\* parameter entries bear other names: neither depends on the names of the
\* parameter entries, FUNCTION and RETURN included.  The code does not
\* keep this: the names of the parameter entries are keys of the same dict
\* as FUNCTION and RETURN, so an entry named FUNCTION replaces the
\* description and an entry named RETURN the return text.
C22_DescriptionWhateverTheNames ==
    pc = "returned"
        => /\ ret.fn = "_analyze_function_docs"
                => /\ Said(ret.value, "FUNCTION")
                          = Trimmed(BeforeFirstMarker(DocText))
                   /\ Said(ret.value, "RETURN")
                          = Said(AnalyzeFunctionDocs(OtherwiseNamed(DocText)),
                                  "RETURN")
           /\ (ret.fn = "_collect_function_info" /\ ret.value # None)
                => /\ ret.value[1].doc = Trimmed(BeforeFirstMarker(DocText))
                   /\ ret.value[1].return
                          = Strip(Said(AnalyzeFunctionDocs(
                                            OtherwiseNamed(DocText)),
                                        "RETURN"))
---------------------------------------------------------------------------
(* C23.  The text after the return marker                                  *)

\* the return markers of the text: where each begins
ReturnMarkers(text) ==
    {i \in 1..Len(text) :
        /\ text[i] = ":"
        /\ \E j \in (i + 1)..(Len(text) - 1) :
              /\ \A k \in (i + 1)..(j - 1) : text[k] \in Space
              /\ text[j] = "return"
              /\ text[j + 1] = ":"}

\* the colon that ends the return marker beginning at i
ReturnMarkerEnd(text, i) ==
    CHOOSE c \in (i + 2)..Len(text) :
        /\ text[c] = ":"
        /\ text[c - 1] = "return"
        /\ \A k \in (i + 1)..(c - 2) : text[k] \in Space

\* the text T after the one return marker of the text, up to the next
\* marker or to the end of the text
ReturnText(text) ==
    LET e     == ReturnMarkerEnd(text, CHOOSE i \in ReturnMarkers(text) : TRUE)
        later == {i \in (e + 1)..Len(text) : MarkerBegins(text, i)}
    IN  IF later = {} THEN SubSeq(text, e + 1, Len(text))
        ELSE SubSeq(text, e + 1,
                    (CHOOSE a \in later : \A i \in later : a <= i) - 1)

\* the docstring has one return marker and no parameter entry named RETURN
OneReturnEntry(text) ==
    /\ Cardinality(ReturnMarkers(text)) = 1
    /\ \A i \in 1..Len(text) : text[i] # "RETURN"

\* C23 as stated: for a docstring with one return marker, followed by the
\* text T up to the next marker or the end, the return text
\* _analyze_function_docs returns, and the one _collect_function_info
\* returns, is T trimmed, whole, a T with a colon in it included.  The code
\* does not keep this: it cuts the text of a return entry at its first
\* colon, as it does for a parameter entry, and keeps what follows it.
C23_ReturnTextWhole ==
    (pc = "returned" /\ OneReturnEntry(DocText))
        => /\ ret.fn = "_analyze_function_docs"
                => Said(ret.value, "RETURN") = Trimmed(ReturnText(DocText))
           /\ (ret.fn = "_collect_function_info" /\ ret.value # None)
                => ret.value[1].return = Trimmed(ReturnText(DocText))
---------------------------------------------------------------------------
(* C24.  :exclude_children: wherever it stands in the docstring of a class *)

\* the docstring ends with the :exclude_children: line and its line break
EndsWithExcludeChildren(text) ==
    /\ Len(text) >= 4
    /\ SubSeq(text, Len(text) - 3, Len(text))
           = <<":", "exclude_children", ":", "\n">>

\* C24 as stated: once _collect_class_info has returned the dict of a
\* class whose docstring has a line :exclude_children: ended by a line
\* break, be it the last line, the dict has no constants and no methods
\* other than those in the class's include_methods set.  The code does not
\* keep this: it looks for the directive in the stripped docstring, which
\* has lost the line break of its last line.
C24_ExcludeChildrenAnywhere ==
    (/\ pc = "returned"
     /\ ret.fn = "_collect_class_info"
     /\ ret.value # None
     /\ StandaloneDirective(call.cls.doc[1], "exclude_children"))
        => /\ ret.value[1].constants = <<>>
           /\ MethodNames(ret.value[1])
                  \subseteq GetInclusion(Some(StrippedDoc(call.cls)))
---------------------------------------------------------------------------
(* C25.  The descriptions shown and the directives of the docstrings       *)

\* the words of the directives a docstring may carry
DirectiveWords ==
    {"exclude_children", "exclude_methods", "include_methods", "param",
     "return"}

DescriptionHooks == {"module_doc", "class_doc", "function_doc"}

\* C25 as stated: in the list export() builds out of a module, the
\* description module_doc, class_doc or function_doc has rendered holds no
\* directive of the docstring it comes from: no :exclude_children:, no
\* exclude_methods or include_methods directive, no :param ...: and no
\* :return:.  The code does not keep this: the doc of a class is its
\* whole docstring, stripped, directives and all.
C25_NoDirectiveInDescription ==
    \A i \in Made(out, DescriptionHooks) :
        Pieces(out[i].text) \cap DirectiveWords = {}
---------------------------------------------------------------------------
(* C26.  The callables of a class, each in one of the two lists            *)

\* the functions and methods getmembers(cls) yields, inherited ones too
CallableMembers(cls) ==
    {cls.members[i] :
        i \in {j \in 1..Len(cls.members) :
                  cls.members[j].is \in {"function", "method"}}}

\* the member is one the directives and the options let through: its own
\* docstring has no :exclude:, the directives of the class do not exclude
\* it, and it is not a private name that nothing allows
LetThrough(m, cls, opts) ==
    /\ ~CheckExclusion(m.func[1].doc, "exclude")
    /\ ~IsMethodExcluded(m.name, GetInclusion(Some(StrippedDoc(cls))),
                         CheckExclusion(Some(StrippedDoc(cls)),
                                        "exclude_children"),
                         GetExclusion(Some(StrippedDoc(cls))))
    /\ \/ opts.collect_private_methods
       \/ ~StartsWithUnderscore(m.name)
       \/ m.name \in GetInclusion(Some(StrippedDoc(cls)))

\* how many entries of the list bear the name
Listed(list, name) == Cardinality({i \in 1..Len(list) : list[i].name = name})

\* C26 as stated: once _collect_class_info has returned the dict of a
\* class, every function or method getmembers yields for the class that
\* the directives and the options let through is once in
\* data['static_methods'] or once in data['methods'], never in both and
\* never in neither, inherited members included.  The code does not keep
\* this: a member whose name is not in the class's own __dict__ is put in
\* neither list.
C26_CallableInOneList ==
    (pc = "returned" /\ ret.fn = "_collect_class_info" /\ ret.value # None)
        => \A m \in CallableMembers(call.cls) :
               LetThrough(m, call.cls, call.options)
                   => Listed(ret.value[1].static_methods, m.name)
                      + Listed(ret.value[1].methods, m.name) = 1
---------------------------------------------------------------------------
(* C27.  Where the stylesheet of the HTML documents is                     *)

\* the documents among the files written
WrittenDocuments == {i \in 1..Len(files) : files[i].key.ext = ".html"}

\* the stylesheets among the files written
WrittenStyleSheets == {i \in 1..Len(files) : files[i].key.ext = ".css"}

\* the link to style.css of the document files[i] resolves: the file
\* style.css is in the directory of the document and holds the stylesheet
LinkResolves(i) ==
    \E j \in WrittenStyleSheets :
        /\ files[j].key.dir = files[i].key.dir
        /\ files[j].key.stem = "style"
        /\ files[j].value = StyleSheet

\* the document files[i] begins with the stylesheet itself
EmbedsStyles(i) ==
    /\ Len(files[i].value) >= 2 + Len(StyleSheet)
    /\ SubSeq(files[i].value, 1, 2 + Len(StyleSheet))
           = <<"<head><style>">> \o StyleSheet \o <<"</style></head>">>

\* C27 as stated: once export() has written the documents of an HTML
\* export, with add_css_to_each_file off the file style.css is in the
\* directory of the documents, so that the link at the top of every
\* document resolves; with add_css_to_each_file on no stylesheet file is
\* written and every document embeds the styles.  The code does not keep
\* the first part: free_run writes style.css into output_directory and
\* _file_writer the documents into the folder output_folder_name of it.
C27_StyleSheetBesideDocuments ==
    (pc = "done" /\ options.output_format = HTML)
        => /\ ~options.add_css_to_each_file
                => \A i \in WrittenDocuments : LinkResolves(i)
           /\ options.add_css_to_each_file
                => /\ WrittenStyleSheets = {}
                   /\ \A i \in WrittenDocuments : EmbedsStyles(i)
===========================================================================
